---- MODULE Spec2Model ----
(***************************************************************************)
(* A model of the tracking / temporal-filter / cross-camera matching core  *)
(* of the PPE detection system:                                            *)
(*   core/tracker.py          Track, PersonTracker                         *)
(*   core/temporal_filter.py  TemporalFilter                               *)
(*   core/person_matcher.py   PersonMatcher                                *)
(*                                                                         *)
(* Numbers that are floats in the code are kept exact here: an IoU is the  *)
(* pair intersection/union of two integer boxes and is compared by cross   *)
(* multiplication; a ratio of the temporal filter is a pair count/length;  *)
(* a matching cost is a fixed-point number in thousandths.                 *)
(***************************************************************************)
EXTENDS Integers, Sequences, FiniteSets, TLC

VARIABLES
    \* ---- core/tracker.py
    Track_id_counter,   \* Track._id_counter (class attribute)
    tracks,             \* PersonTracker.tracks: sequence of Track records
    frame_count,        \* PersonTracker.frame_count
    tracker_min_hits,   \* PersonTracker.min_hits, as given to the constructor
    detections,         \* the argument of the last update() call
    tracked,            \* what the last update() call returned
    raised,             \* "none", or the exception the last update() call raised
    matched,            \* history: the (detection, track id) pairs the last association step matched
    assigned,           \* history: every id this tracker gave to a track
    evicted,            \* history: the ids of the tracks removed as dead
    born,               \* history: id -> frame_count of the call that created the track
    unbroken,           \* history: ids of the tracks matched in every call since their creation
    \* ---- core/temporal_filter.py
    person_buffers,     \* TemporalFilter.person_buffers: id -> deque
    person_status,      \* TemporalFilter.person_status: id -> status
    violation_threshold,  \* TemporalFilter.violation_threshold, as the pair num/den
    returned,           \* what the last TemporalFilter call returned
    call,               \* the last TemporalFilter call and its arguments
    observed,           \* history: id -> every observation since its buffer was created
    \* ---- core/person_matcher.py
    persons_cam1, persons_cam2, frames_given,   \* the arguments of the match_persons() call
    match_done,         \* has match_persons() been called on these arguments
    assignment,         \* what linear_sum_assignment returned in that call
    matches,            \* what match_persons() returned
    \* ---- core/fusion_detector.py
    fusion_strategy,    \* FusionDetector.fusion_strategy
    frames,             \* the argument of process_frames(): camera index -> is there a frame
    pipeline_persons,   \* camera index -> the persons that camera's process_frame() finds
    produced,           \* history: camera index -> what process_frame() returned, as returned
    camera_results,     \* camera index -> the same result objects as they are now
    fusion_path,        \* history: the branch of _fuse_results the call took
    fused_persons,      \* the list fused_persons of _fuse_two_cameras
    fused_violations,   \* the list violations of _fuse_two_cameras
    fusion_matches,     \* what match_persons() returned to _fuse_two_cameras
    fused_results,      \* what process_frames() returned, None if it raised
    fusion_raised,      \* "none", or the exception process_frames() raised
    \* ---- two PersonTracker instances A and B (one per camera) and their threads
    pt_tracks,          \* tracker -> its tracks: sequence of [id, time_since_update]
    pt_frame_count,     \* tracker -> PersonTracker.frame_count
    pt_pc,              \* tracker -> where its thread is inside update()
    pt_pending,         \* tracker -> unmatched detections still to get a track in this call
    pt_self_id,         \* tracker -> self.id of the Track being constructed
    pt_assigned,        \* history: tracker -> the ids it assigned since its last reset(), in order
    \* ---- a FusionDetector and its camera pipelines (one PoseBasedDetector per camera)
    given_frames,       \* the argument of the last process_frames() call: TRUE a frame, FALSE None
    pf_calls,           \* history: the number of process_frames() calls so far
    pf_raised,          \* "none", or the exception the last process_frames() call raised
    det_frame_count,    \* camera -> PoseBasedDetector.frame_count
    det_tracker_frame_count,  \* camera -> tracker.frame_count
    det_tracks,         \* camera -> tracker.tracks: sequence of [id, hits, time_since_update]
    det_buffers,        \* camera -> temporal_filter.person_buffers
    det_status,         \* camera -> temporal_filter.person_status
    det_streak,         \* history: camera -> id -> the number of ticks in a row that reported it
    det_reported,       \* history: camera -> the ids tracker.update reported in the last call
    det_outcome         \* history: camera -> what the last call did with its pipeline

trackerVars == <<Track_id_counter, tracks, frame_count, tracker_min_hits, detections,
                 tracked, raised, matched, assigned, evicted, born, unbroken>>
filterVars == <<person_buffers, person_status, violation_threshold, returned, call, observed>>
matcherVars == <<persons_cam1, persons_cam2, frames_given, match_done, assignment, matches>>
fusionVars == <<fusion_strategy, frames, pipeline_persons, produced, camera_results,
                fusion_path, fused_persons, fused_violations, fusion_matches,
                fused_results, fusion_raised>>
twoTrackerVars == <<pt_tracks, pt_frame_count, pt_pc, pt_pending, pt_self_id, pt_assigned>>
pipelineVars == <<given_frames, pf_calls, pf_raised, det_frame_count, det_tracker_frame_count,
                  det_tracks, det_buffers, det_status, det_streak, det_reported, det_outcome>>
vars == <<trackerVars, filterVars, matcherVars, fusionVars, twoTrackerVars, pipelineVars>>

----------------------------------------------------------------------------
(* Generic helpers *)

Range(s) == {s[i] : i \in 1..Len(s)}

Min(a, b) == IF a <= b THEN a ELSE b
Max(a, b) == IF a >= b THEN a ELSE b

RECURSIVE Gcd(_, _)
Gcd(a, b) == IF b = 0 THEN a ELSE Gcd(b, a % b)

Lcm(a, b) == (a * b) \div Gcd(a, b)

RECURSIVE LcmOf(_)
LcmOf(S) == IF S = {} THEN 1
            ELSE LET x == CHOOSE y \in S : TRUE IN Lcm(x, LcmOf(S \ {x}))

RECURSIVE SumOf(_, _)
\* the sum of f[x] over the finite set S
SumOf(f, S) == IF S = {} THEN 0
               ELSE LET x == CHOOSE y \in S : TRUE IN f[x] + SumOf(f, S \ {x})

\* the elements of the finite set of integers S in increasing order
RECURSIVE SortedSeq(_)
SortedSeq(S) == IF S = {} THEN <<>>
                ELSE LET m == CHOOSE x \in S : \A y \in S : x <= y
                     IN <<m>> \o SortedSeq(S \ {m})

\* the injective maps of 1..k into 1..n
Injections(k, n) == {f \in [1..k -> 1..n] : \A a, b \in 1..k : a # b => f[a] # f[b]}

----------------------------------------------------------------------------
(* core/tracker.py *)

\* Configuration of the tracker under check
max_age == 2
min_hits == 3
\* PersonTracker(min_hits=1), the tracker of test_tracker_single_detection
min_hits_single_detection == 1
iou_threshold_num == 3
iou_threshold_den == 10

\* Bounds of the exploration
MaxFrames == 4
MaxDets == 1

\* Bounding boxes <<x1, y1, x2, y2>> a detector may report.
\*   BoxWide   area 10
\*   BoxLeft   area 4, inside BoxWide   (IoU 4/10)
\*   BoxFar    area 4, disjoint from the others
BoxWide == <<0, 0, 5, 2>>
BoxLeft == <<0, 0, 2, 2>>
BoxFar == <<7, 0, 9, 2>>
Boxes == {BoxWide, BoxLeft, BoxFar}

DetectionLists == UNION {[1..n -> Boxes] : n \in 0..MaxDets}

\* Bounding boxes of two people side by side, all of area 5.
\*   BoxStands      the first person          BoxNeighbour   the second, disjoint
\*   BoxSteps       the first, two to the right (IoU 3/7 with BoxStands and
\*                  2/8 with BoxNeighbour)
\*   BoxEnters      someone to the left of the first (IoU 2/8 with BoxStands,
\*                  disjoint from BoxNeighbour)
BoxStands == <<3, 0, 8, 1>>
BoxNeighbour == <<8, 0, 13, 1>>
BoxSteps == <<5, 0, 10, 1>>
BoxEnters == <<0, 0, 5, 1>>
OverlapBoxes == {BoxStands, BoxNeighbour, BoxSteps, BoxEnters}

Area(b) == (b[3] - b[1]) * (b[4] - b[2])

Intersection(b1, b2) ==
    LET x1 == Max(b1[1], b2[1])
        y1 == Max(b1[2], b2[2])
        x2 == Min(b1[3], b2[3])
        y2 == Min(b1[4], b2[4])
    IN Max(0, x2 - x1) * Max(0, y2 - y1)

Union(b1, b2) == Area(b1) + Area(b2) - Intersection(b1, b2)

\* _iou(bbox1, bbox2) >= iou_threshold.  The code divides by max(union, 1e-6):
\* with integer boxes a union below 1 gives intersection / 1e-6.
IouAtLeastThreshold(b1, b2) ==
    IF Union(b1, b2) >= 1
    THEN Intersection(b1, b2) * iou_threshold_den >= iou_threshold_num * Union(b1, b2)
    ELSE Intersection(b1, b2) * iou_threshold_den * 1000000 >= iou_threshold_num

\* A common denominator of the IoU values of the boxes in play
IouDen ==
    LcmOf(({Union(a, b) : a, b \in Boxes} \cup {Union(a, b) : a, b \in OverlapBoxes}) \ {0})

\* _iou(bbox1, bbox2) as a multiple of 1/IouDen
Iou(b1, b2) ==
    IF Union(b1, b2) >= 1
    THEN Intersection(b1, b2) * (IouDen \div Union(b1, b2))
    ELSE Intersection(b1, b2) * IouDen * 1000000


\* Track.__init__: a new track for a detection's bbox.  kf_area_neg abstracts the
\* Kalman state: it says that the area component of the state is negative after
\* the next kf.predict().
NewTrack(id, bbox) ==
    [id |-> id, bbox |-> bbox, age |-> 0, hits |-> 1, time_since_update |-> 0,
     kf_area_neg |-> FALSE]

\* Track.predict: the counters.  The predicted box is the track's box (the
\* velocities of the filter are not modelled).
TrackPredict(t) ==
    [t EXCEPT !.hits = IF t.time_since_update > 0 THEN 0 ELSE t.hits,
              !.time_since_update = t.time_since_update + 1,
              !.age = t.age + 1]

\* Track._z_to_bbox on the predicted state: np.sqrt(s * r) of a negative area is
\* NaN, and int(NaN) raises ValueError.
PredictRaises(t) == t.kf_area_neg

\* Track.update: the corrected box is the measured box.  At the first correction
\* (age 1, covariance of the area velocity 10000 against a measurement noise of
\* 10) the gains on the area and on its velocity are 0.999 and 0.998: the area
\* estimate becomes the measured area z and the velocity z - s0, so that the
\* next predicted area is 2z - s0.
TrackUpdate(t, bbox) ==
    [t EXCEPT !.time_since_update = 0,
              !.hits = t.hits + 1,
              !.bbox = bbox,
              !.kf_area_neg = (t.age = 1 /\ 2 * Area(bbox) < Area(t.bbox))]

\* The one-to-one assignments of full size between detections and tracks, as
\* sets of pairs <<detection index, track index>>
Assignments(n, m) ==
    IF n <= m
    THEN {{<<d, f[d]>> : d \in 1..n} : f \in Injections(n, m)}
    ELSE {{<<f[t], t>> : t \in 1..m} : f \in Injections(m, n)}

TotalIou(dets, trks, A) ==
    SumOf([p \in A |-> Iou(dets[p[1]], trks[p[2]].bbox)], A)

\* linear_sum_assignment(1 - iou_matrix): the assignments of minimum total cost
\* (which of several optimal ones scipy returns is not specified)
LinearSumAssignment(dets, trks) ==
    LET All == Assignments(Len(dets), Len(trks))
        totals == {TotalIou(dets, trks, A) : A \in All}
        best == CHOOSE m \in totals : \A x \in totals : m >= x
    IN {A \in All : TotalIou(dets, trks, A) = best}

\* The pairs of A in the order of their detection index
RowOrder(A) ==
    LET rows == SortedSeq({p[1] : p \in A})
    IN [k \in 1..Len(rows) |-> CHOOSE p \in A : p[1] = rows[k]]

\* PersonTracker._associate_detections, given the assignment A the solver returned
AssociateDetections(dets, trks, A) ==
    IF Len(trks) = 0
    THEN [matches |-> <<>>,
          unmatched_detections |-> [d \in 1..Len(dets) |-> d]]
    ELSE LET pairs == RowOrder(A)
             Low(p) == ~IouAtLeastThreshold(dets[p[1]], trks[p[2]].bbox)
             Keep(p) == ~Low(p)
             rejected == SelectSeq(pairs, Low)
         IN [matches |-> SelectSeq(pairs, Keep),
             unmatched_detections |->
                 SortedSeq((1..Len(dets)) \ {p[1] : p \in A})
                 \o [k \in 1..Len(rejected) |-> rejected[k][1]]]

\* "Update matched tracks"
UpdateMatched(dets, trks, ms) ==
    [t \in 1..Len(trks) |->
        IF \E p \in Range(ms) : p[2] = t
        THEN TrackUpdate(trks[t], dets[(CHOOSE p \in Range(ms) : p[2] = t)[1]])
        ELSE trks[t]]

\* A variant of NewTracks that numbers the tracks of each call from zero
NewTracksFromZero(dets, unmatched_dets, counter) ==
    [k \in 1..Len(unmatched_dets) |-> NewTrack(k - 1, dets[unmatched_dets[k]])]

\* "Create new tracks for unmatched detections": ids from the class counter
NewTracks(dets, unmatched_dets, counter) ==
    [k \in 1..Len(unmatched_dets) |-> NewTrack(counter + k - 1, dets[unmatched_dets[k]])]

\* "Remove dead tracks"
IsAlive(t) == t.time_since_update <= max_age

RemoveDead(trks) == SelectSeq(trks, IsAlive)

\* PersonTracker._get_track_by_id: the first track of the list with the id
GetTrackById(trks, id) ==
    trks[CHOOSE i \in 1..Len(trks) : trks[i].id = id /\ \A j \in 1..(i - 1) : trks[j].id # id]

\* The track index the report loop uses for a matched pair: the index the
\* association step computed, looked up in the list as it is after the removal
\* of the dead tracks
ReportIndex(p) == p[2]

\* self.tracks[m_trk] of the report loop raises IndexError
ReportRaises(ms, trks) == \E p \in Range(ms) : ReportIndex(p) > Len(trks)

RECURSIVE Report(_, _, _, _)
\* "Return tracked detections", detections i..Len(dets)
Report(dets, ms, trks, i) ==
    IF i > Len(dets) THEN <<>>
    ELSE LET mine == {p \in Range(ms) : p[1] = i}
             here == IF mine = {} THEN <<>>
                     ELSE LET track_id == trks[ReportIndex(CHOOSE p \in mine : TRUE)].id
                              track == GetTrackById(trks, track_id)
                          IN IF track.hits >= tracker_min_hits
                             THEN <<[det |-> i, person_id |-> track_id, bbox |-> track.bbox]>>
                             ELSE <<>>
         IN here \o Report(dets, ms, trks, i + 1)

Ids(trks) == {trks[i].id : i \in 1..Len(trks)}

\* PersonTracker.update(dets) when a track's predict() raises: the tracks up to
\* the raising one have been predicted, nothing else has happened
UpdateValueError(dets) ==
    /\ \E k \in 1..Len(tracks) : PredictRaises(tracks[k])
    /\ LET k == CHOOSE i \in 1..Len(tracks) :
                    PredictRaises(tracks[i]) /\ \A j \in 1..(i - 1) : ~PredictRaises(tracks[j])
       IN tracks' = [i \in 1..Len(tracks) |->
                        IF i <= k THEN TrackPredict(tracks[i]) ELSE tracks[i]]
    /\ frame_count' = frame_count + 1
    /\ detections' = dets
    /\ tracked' = <<>>
    /\ raised' = "ValueError"
    /\ matched' = <<>>
    /\ unbroken' = {}
    /\ UNCHANGED <<Track_id_counter, assigned, evicted, born>>

\* PersonTracker.update(dets) past the predict loop, with A the assignment the
\* solver returned
UpdateAssociated(dets, A) ==
    \E predicted \in {[i \in 1..Len(tracks) |-> TrackPredict(tracks[i])]} :
    \E assoc \in {AssociateDetections(dets, predicted, A)} :
    \E ms \in {assoc.matches} :
    \E spawned \in {NewTracks(dets, assoc.unmatched_detections, Track_id_counter)} :
    \E all \in {UpdateMatched(dets, predicted, ms) \o spawned} :
    \E kept \in {RemoveDead(all)} :
       /\ tracks' = kept
       /\ Track_id_counter' = Track_id_counter + Len(spawned)
       /\ frame_count' = frame_count + 1
       /\ detections' = dets
       /\ IF ReportRaises(ms, kept)
          THEN tracked' = <<>> /\ raised' = "IndexError"
          ELSE tracked' = Report(dets, ms, kept, 1) /\ raised' = "none"
       /\ matched' = [k \in 1..Len(ms) |-> <<ms[k][1], predicted[ms[k][2]].id>>]
       /\ assigned' = assigned \cup Ids(spawned)
       /\ evicted' = evicted \cup (Ids(all) \ Ids(kept))
       /\ born' = [id \in DOMAIN born \cup Ids(spawned) |->
                      IF id \in DOMAIN born THEN born[id] ELSE frame_count + 1]
       /\ unbroken' = (unbroken \cap {predicted[p[2]].id : p \in Range(ms)}) \cup Ids(spawned)

\* PersonTracker.update(detections)
Update ==
    /\ frame_count < MaxFrames
    /\ \E dets \in DetectionLists :
          \/ UpdateValueError(dets)
          \/ /\ \A k \in 1..Len(tracks) : ~PredictRaises(tracks[k])
             /\ \E A \in LinearSumAssignment(dets, tracks) : UpdateAssociated(dets, A)
    /\ UNCHANGED <<tracker_min_hits, filterVars, matcherVars, fusionVars, twoTrackerVars, pipelineVars>>

\* The detection lists of a scene with one person more
CrowdLists == UNION {[1..n -> Boxes] : n \in 0..(MaxDets + 1)}

\* PersonTracker.update(detections) in that scene
UpdateCrowd ==
    /\ frame_count < MaxFrames
    /\ \E dets \in CrowdLists :
          \/ UpdateValueError(dets)
          \/ /\ \A k \in 1..Len(tracks) : ~PredictRaises(tracks[k])
             /\ \E A \in LinearSumAssignment(dets, tracks) : UpdateAssociated(dets, A)
    /\ UNCHANGED <<tracker_min_hits, filterVars, matcherVars, fusionVars, twoTrackerVars, pipelineVars>>

\* The detection lists of the scene of two people side by side
OverlapLists == {<<>>} \cup [1..(MaxDets + 1) -> OverlapBoxes]

\* PersonTracker.update(detections) in that scene
UpdateOverlap ==
    /\ frame_count < MaxFrames
    /\ \E dets \in OverlapLists :
          \/ UpdateValueError(dets)
          \/ /\ \A k \in 1..Len(tracks) : ~PredictRaises(tracks[k])
             /\ \E A \in LinearSumAssignment(dets, tracks) : UpdateAssociated(dets, A)
    /\ UNCHANGED <<tracker_min_hits, filterVars, matcherVars, fusionVars, twoTrackerVars, pipelineVars>>

----------------------------------------------------------------------------
(* core/temporal_filter.py *)

\* Configuration of the filter under check; the threshold is 7/10
buffer_size == 10
violation_threshold_num == 7
violation_threshold_den == 10

\* Bounds of the exploration
MaxObserved == 11

PersonIds == {1, 2}

Compliant == [compliant |-> TRUE, detected_ppe |-> <<"helmet", "vest">>, missing_ppe |-> <<>>]
NoHelmet == [compliant |-> FALSE, detected_ppe |-> <<"vest">>, missing_ppe |-> <<"helmet">>]
Observations == {Compliant, NoHelmet}

\* Python's None where a status is expected
None == [none |-> TRUE]

\* A variant of DequeAppend for a deque without maxlen
DequeAppendNoMaxlen(buffer, x) == Append(buffer, x)

\* deque(maxlen=buffer_size).append(x): a full deque drops its oldest item
DequeAppend(buffer, x) ==
    IF buffer_size = 0 THEN <<>>
    ELSE IF Len(buffer) >= buffer_size
         THEN SubSeq(buffer, Len(buffer) - buffer_size + 2, Len(buffer)) \o <<x>>
         ELSE Append(buffer, x)

\* buffer_list[-n:]
LastN(s, n) == SubSeq(s, Max(1, Len(s) - n + 1), Len(s))

RECURSIVE Flatten(_)
\* the concatenation of a sequence of sequences
Flatten(ss) == IF ss = <<>> THEN <<>> ELSE Head(ss) \o Flatten(Tail(ss))

Count(items, x) == Cardinality({i \in 1..Len(items) : items[i] = x})

FirstIndex(items, x) == CHOOSE i \in 1..Len(items) : items[i] = x /\ \A j \in 1..(i - 1) : items[j] # x

RECURSIVE MostCommonOf(_, _, _)
\* Counter(items).most_common(n) restricted to the items in left: by decreasing
\* count, equal counts in the order of first occurrence
MostCommonOf(items, left, n) ==
    IF left = {} \/ n = 0 THEN <<>>
    ELSE LET best == CHOOSE x \in left : \A y \in left \ {x} :
                        \/ Count(items, x) > Count(items, y)
                        \/ /\ Count(items, x) = Count(items, y)
                           /\ FirstIndex(items, x) < FirstIndex(items, y)
         IN <<best>> \o MostCommonOf(items, left \ {best}, n - 1)

\* TemporalFilter._most_common(items, top_n=10)
MostCommon(items) == MostCommonOf(items, Range(items), 10)

ViolationCount(buffer_list) == Cardinality({i \in 1..Len(buffer_list) : ~buffer_list[i].compliant})

\* the status update() computes from a non-empty buffer against the threshold
\* num/den given as the pair threshold.  violation_ratio is the pair
\* <<violation_count, len(buffer_list)>>, confidence the pair
\* <<|2 * violation_count - len|, buffer_size>>
StatusAt(buffer_list, threshold) ==
    LET violation_count == ViolationCount(buffer_list)
        n == Len(buffer_list)
        recent_frames == LastN(buffer_list, 10)
        twice == 2 * violation_count - n
    IN [is_violation |-> violation_count * threshold[2] >= threshold[1] * n,
        confidence |-> <<IF twice >= 0 THEN twice ELSE -twice, buffer_size>>,
        detected_ppe |-> MostCommon(Flatten([k \in 1..Len(recent_frames) |-> recent_frames[k].detected_ppe])),
        missing_ppe |-> MostCommon(Flatten([k \in 1..Len(recent_frames) |-> recent_frames[k].missing_ppe])),
        violation_ratio |-> <<violation_count, n>>]

\* A variant of StatusOf that compares the ratio strictly with the threshold
StatusOfStrict(buffer_list) ==
    [StatusAt(buffer_list, violation_threshold) EXCEPT
        !.is_violation = ViolationCount(buffer_list) * violation_threshold[2]
                            > violation_threshold[1] * Len(buffer_list)]

\* the status update() computes from a non-empty buffer: the ratio is compared
\* with self.violation_threshold as it is at the call
StatusOf(buffer_list) == StatusAt(buffer_list, violation_threshold)

\* the status a TemporalFilter computes while its threshold is the one it was
\* constructed with
StatusAtConstruction(buffer_list) ==
    StatusAt(buffer_list, <<violation_threshold_num, violation_threshold_den>>)

EmptyStatus ==
    [is_violation |-> FALSE, confidence |-> <<0, 1>>, detected_ppe |-> <<>>,
     missing_ppe |-> <<>>, violation_ratio |-> <<0, 1>>]

\* f with x mapped to v
Put(f, x, v) == [y \in DOMAIN f \cup {x} |-> IF y = x THEN v ELSE f[y]]

\* f without the keys in S
Drop(f, S) == [y \in DOMAIN f \ S |-> f[y]]

TotalObserved == SumOf([id \in DOMAIN observed |-> Len(observed[id])], DOMAIN observed)

\* TemporalFilter.update(person_id, is_compliant, detected_ppe, missing_ppe)
FilterUpdate ==
    /\ TotalObserved < MaxObserved
    /\ \E person_id \in PersonIds, obs \in Observations :
          LET old == IF person_id \in DOMAIN person_buffers
                     THEN person_buffers[person_id] ELSE <<>>
              buffer == DequeAppend(old, obs)
          IN /\ person_buffers' = Put(person_buffers, person_id, buffer)
             /\ IF Len(buffer) = 0
                THEN person_status' = person_status /\ returned' = EmptyStatus
                ELSE /\ person_status' = Put(person_status, person_id, StatusOf(buffer))
                     /\ returned' = StatusOf(buffer)
             /\ call' = [op |-> "update", person_id |-> person_id, obs |-> obs]
             /\ observed' = Put(observed, person_id,
                                (IF person_id \in DOMAIN person_buffers
                                 THEN observed[person_id] ELSE <<>>) \o <<obs>>)
    /\ UNCHANGED <<violation_threshold, trackerVars, matcherVars, fusionVars, twoTrackerVars,
                   pipelineVars>>

\* TemporalFilter.get_status(person_id)
GetStatusOf(status, person_id) ==
    IF person_id \in DOMAIN status THEN status[person_id] ELSE None

\* what remove_person(person_id) leaves of person_buffers
RemovedBuffers(buffers, person_id) == Drop(buffers, {person_id})

\* A variant of RemovedStatus that keeps the status of the removed person
RemovedStatusKept(status, person_id) == status

\* what remove_person(person_id) leaves of person_status
RemovedStatus(status, person_id) == Drop(status, {person_id})

\* TemporalFilter.remove_person(person_id)
RemovePerson ==
    /\ \E person_id \in PersonIds :
          /\ person_buffers' = RemovedBuffers(person_buffers, person_id)
          /\ person_status' = RemovedStatus(person_status, person_id)
          /\ observed' = Drop(observed, {person_id})
          /\ call' = [op |-> "remove_person", person_id |-> person_id]
    /\ returned' = None
    /\ UNCHANGED <<violation_threshold, trackerVars, matcherVars, fusionVars, twoTrackerVars,
                   pipelineVars>>

RECURSIVE RemoveAll(_, _, _)
\* remove_person for every id of the set gone: <<buffers, status>> afterwards
RemoveAll(buffers, status, gone) ==
    IF gone = {} THEN <<buffers, status>>
    ELSE LET id == CHOOSE x \in gone : TRUE
         IN RemoveAll(RemovedBuffers(buffers, id), RemovedStatus(status, id), gone \ {id})

\* TemporalFilter.cleanup_old_tracks(active_person_ids): remove_person for every
\* key of person_buffers that is not in active_person_ids
CleanupOldTracks ==
    /\ \E active_set \in SUBSET PersonIds :
          LET gone == DOMAIN person_buffers \ active_set
              left == RemoveAll(person_buffers, person_status, gone)
          IN /\ person_buffers' = left[1]
             /\ person_status' = left[2]
             /\ observed' = Drop(observed, gone)
             /\ call' = [op |-> "cleanup_old_tracks", active |-> active_set,
                         known |-> DOMAIN person_buffers \cup DOMAIN person_status]
    /\ returned' = None
    /\ UNCHANGED <<violation_threshold, trackerVars, matcherVars, fusionVars, twoTrackerVars,
                   pipelineVars>>

\* TemporalFilter.reset()
FilterReset ==
    /\ person_buffers' = <<>>
    /\ person_status' = <<>>
    /\ observed' = <<>>
    /\ call' = [op |-> "reset"]
    /\ returned' = None
    /\ UNCHANGED <<violation_threshold, trackerVars, matcherVars, fusionVars, twoTrackerVars,
                   pipelineVars>>


\* The arguments of set_violation_threshold in play, in tenths: -0.1, 0, 0.5,
\* 0.7, 1 and 1.1
Thresholds == {-1, 0, 5, 7, 10, 11}

\* Bounds of the exploration: the observations passed to update() where the
\* threshold changes or the queries are called in between
MaxFewObserved == 3

\* A variant of ThresholdAfterSet that stores the value before it is checked
ThresholdAfterSetUnchecked(old, tenths) == <<tenths, 10>>

\* self.violation_threshold after set_violation_threshold(tenths / 10) on a
\* filter whose threshold is old
ThresholdAfterSet(old, tenths) ==
    IF 0 <= tenths /\ tenths <= 10 THEN <<tenths, 10>> ELSE old

\* TemporalFilter.set_violation_threshold(threshold)
SetViolationThreshold ==
    /\ \E tenths \in Thresholds :
          /\ violation_threshold' = ThresholdAfterSet(violation_threshold, tenths)
          /\ call' = [op |-> "set_violation_threshold", threshold |-> tenths,
                      raised |-> IF 0 <= tenths /\ tenths <= 10 THEN "none" ELSE "ValueError"]
    /\ returned' = None
    /\ UNCHANGED <<person_buffers, person_status, observed, trackerVars, matcherVars,
                   fusionVars, twoTrackerVars, pipelineVars>>

\* TemporalFilter.update, for the first MaxFewObserved observations
FilterUpdateFew == TotalObserved < MaxFewObserved /\ FilterUpdate

\* TemporalFilter.get_status(person_id): person_status is a plain dict read
\* with .get
GetStatus ==
    /\ \E person_id \in PersonIds :
          /\ returned' = GetStatusOf(person_status, person_id)
          /\ call' = [op |-> "get_status", person_id |-> person_id]
    /\ UNCHANGED <<person_buffers, person_status, observed, violation_threshold, trackerVars,
                   matcherVars, fusionVars, twoTrackerVars, pipelineVars>>

\* A variant of PersonHistoryBuffers without the membership test: indexing the
\* defaultdict with an unknown id stores an empty deque for it
PersonHistoryBuffersIndexed(buffers, person_id) ==
    IF person_id \in DOMAIN buffers THEN buffers ELSE Put(buffers, person_id, <<>>)

\* person_buffers after get_person_history(person_id): an unknown id is
\* answered by the test "person_id not in self.person_buffers", which creates
\* nothing, and a known one is indexed
PersonHistoryBuffers(buffers, person_id) ==
    IF person_id \notin DOMAIN buffers THEN buffers
    ELSE PersonHistoryBuffersIndexed(buffers, person_id)

\* TemporalFilter.get_person_history(person_id): the list it returns is stored
\* under the key history
GetPersonHistory ==
    /\ \E person_id \in PersonIds :
       \E after \in {PersonHistoryBuffers(person_buffers, person_id)} :
          /\ person_buffers' = after
          /\ returned' = [history |-> IF person_id \in DOMAIN person_buffers
                                      THEN after[person_id] ELSE <<>>]
          /\ call' = [op |-> "get_person_history", person_id |-> person_id]
    /\ UNCHANGED <<person_status, observed, violation_threshold, trackerVars, matcherVars,
                   fusionVars, twoTrackerVars, pipelineVars>>

\* TemporalFilter.get_statistics(); violation_rate is the pair
\* <<violations, max(total_persons, 1)>>
GetStatistics ==
    /\ LET total_persons == Cardinality(DOMAIN person_status)
           violations == Cardinality({id \in DOMAIN person_status :
                                         person_status[id].is_violation})
       IN returned' = [total_tracked |-> total_persons,
                       violations |-> violations,
                       compliant |-> total_persons - violations,
                       violation_rate |-> <<violations, Max(total_persons, 1)>>]
    /\ call' = [op |-> "get_statistics"]
    /\ UNCHANGED <<person_buffers, person_status, observed, violation_threshold, trackerVars,
                   matcherVars, fusionVars, twoTrackerVars, pipelineVars>>


----------------------------------------------------------------------------
(* core/person_matcher.py *)

\* Configuration of the matcher under check, in thousandths
spatial_weight == 600
appearance_weight == 400
max_distance_threshold == 500

\* Bounds of the exploration
MaxPersons == 2

\* the shape <<h, w>> of both frames
FrameShape == <<8, 8>>

\* Person records: a bbox and the colour the frame shows inside it.
\* Twice the bbox centres: (2,2), (3,3), (3,2), (14,2); (18,2) lies outside the frame.
Persons ==
    {[bbox |-> <<0, 0, 2, 2>>, colour |-> "red"],
     [bbox |-> <<0, 0, 3, 3>>, colour |-> "red"],
     [bbox |-> <<1, 0, 2, 2>>, colour |-> "blue"],
     [bbox |-> <<6, 0, 8, 2>>, colour |-> "blue"],
     [bbox |-> <<8, 0, 10, 2>>, colour |-> "red"]}

PersonLists == UNION {[1..n -> Persons] : n \in 0..MaxPersons}

RECURSIVE IsqrtIn(_, _, _)
\* floor(sqrt(x)), known to lie in lo..hi
IsqrtIn(x, lo, hi) ==
    IF lo = hi THEN lo
    ELSE LET mid == (lo + hi + 1) \div 2
         IN IF mid * mid <= x THEN IsqrtIn(x, mid, hi) ELSE IsqrtIn(x, lo, mid - 1)

\* floor(sqrt(x)) for 0 <= x < 1000000
Isqrt(x) == IsqrtIn(x, 0, 999)

\* A variant of SpatialDistance that does not clamp the quotient to 1
SpatialDistanceUnclamped(person1, person2) ==
    LET bbox1 == person1.bbox
        bbox2 == person2.bbox
        dx == (bbox1[1] + bbox1[3]) - (bbox2[1] + bbox2[3])
        dy == (bbox1[2] + bbox1[4]) - (bbox2[2] + bbox2[4])
    IN Isqrt(Min(999999, 125000 * (dx * dx + dy * dy)))

\* PersonMatcher._compute_spatial_distance, in thousandths: the distance of the
\* bbox centres divided by sqrt(2), at most 1.  With d2 the squared distance of
\* the doubled centres the quotient is sqrt(d2 / 8).
SpatialDistance(person1, person2) ==
    LET bbox1 == person1.bbox
        bbox2 == person2.bbox
        dx == (bbox1[1] + bbox1[3]) - (bbox2[1] + bbox2[3])
        dy == (bbox1[2] + bbox1[4]) - (bbox2[2] + bbox2[4])
        d2 == dx * dx + dy * dy
    IN IF d2 >= 8 THEN 1000 ELSE Isqrt(125000 * d2)

\* Python's None where a crop is expected
NoCrop == <<>>

\* PersonMatcher._extract_person_crop: the clipped bbox, or None when it is empty
ExtractPersonCrop(person, shape) ==
    LET h == shape[1]
        w == shape[2]
        x1 == Max(0, Min(person.bbox[1], w))
        y1 == Max(0, Min(person.bbox[2], h))
        x2 == Max(0, Min(person.bbox[3], w))
        y2 == Max(0, Min(person.bbox[4], h))
    IN IF x2 <= x1 \/ y2 <= y1 THEN NoCrop ELSE <<x1, y1, x2, y2>>

\* PersonMatcher._compute_appearance_distance, in thousandths.  The crops are of
\* one colour each, so each histogram has a single non-zero bin of 512: the
\* correlation of two such histograms is 1 for the same bin and -1/511 for
\* different bins, and the distance (1 - correlation) / 2 is 0 or 256/511.
AppearanceDistance(person1, person2) ==
    IF ExtractPersonCrop(person1, FrameShape) = NoCrop
       \/ ExtractPersonCrop(person2, FrameShape) = NoCrop
    THEN 1000
    ELSE IF person1.colour = person2.colour THEN 0 ELSE (256 * 1000) \div 511

\* One entry of PersonMatcher._compute_cost_matrix, in millionths
Cost(person1, person2, with_frames) ==
    IF with_frames
    THEN spatial_weight * SpatialDistance(person1, person2)
         + appearance_weight * AppearanceDistance(person1, person2)
    ELSE 1000 * SpatialDistance(person1, person2)

TotalCost(ps1, ps2, with_frames, A) ==
    SumOf([p \in A |-> Cost(ps1[p[1]], ps2[p[2]], with_frames)], A)

\* A variant of MinCostAssignments that gives every camera-1 person its nearest
\* camera-2 person, whether or not that person is taken
NearestAssignments(ps1, ps2, with_frames) ==
    {{<<i, CHOOSE j \in 1..Len(ps2) :
              \A l \in 1..Len(ps2) :
                 Cost(ps1[i], ps2[j], with_frames) <= Cost(ps1[i], ps2[l], with_frames)>>
        : i \in 1..Len(ps1)}}

\* linear_sum_assignment(cost_matrix): the assignments of minimum total cost
MinCostAssignments(ps1, ps2, with_frames) ==
    LET All == Assignments(Len(ps1), Len(ps2))
        totals == {TotalCost(ps1, ps2, with_frames, A) : A \in All}
        best == CHOOSE m \in totals : \A x \in totals : m <= x
    IN {A \in All : TotalCost(ps1, ps2, with_frames, A) = best}

\* A variant of Accepted that rejects a pair whose cost equals the threshold
AcceptedStrict(cost) == 1000000 - cost > 1000000 - 1000 * max_distance_threshold

\* "Filter matches by threshold": is the pair kept
Accepted(cost) == 1000000 - cost >= 1000000 - 1000 * max_distance_threshold

\* what match_persons returns for the assignment A: <<i, j, confidence>> in the
\* order of i, confidence in millionths
FilterMatches(ps1, ps2, with_frames, A) ==
    LET pairs == RowOrder(A)
        Keep(p) == Accepted(Cost(ps1[p[1]], ps2[p[2]], with_frames))
        kept == SelectSeq(pairs, Keep)
    IN [k \in 1..Len(kept) |->
           <<kept[k][1], kept[k][2],
             1000000 - Cost(ps1[kept[k][1]], ps2[kept[k][2]], with_frames)>>]

\* PersonMatcher.match_persons(persons_cam1, persons_cam2, frame_cam1, frame_cam2)
MatchPersons ==
    /\ ~match_done
    /\ match_done' = TRUE
    /\ IF Len(persons_cam1) = 0 \/ Len(persons_cam2) = 0
       THEN assignment' = {} /\ matches' = <<>>
       ELSE \E A \in MinCostAssignments(persons_cam1, persons_cam2, frames_given) :
               /\ assignment' = A
               /\ matches' = FilterMatches(persons_cam1, persons_cam2, frames_given, A)
    /\ UNCHANGED <<persons_cam1, persons_cam2, frames_given, trackerVars, filterVars, fusionVars, twoTrackerVars, pipelineVars>>

----------------------------------------------------------------------------
(* core/fusion_detector.py and the per-camera result of core/pose_based_detector.py *)

\* The cameras of the FusionDetector under check: three detectors, indices 0..2
Cameras == {0, 1, 2}

\* The values of config["fusion"]["strategy"]; any value but "or" and "and"
\* takes the weighted branch
Strategies == {"or", "and", "weighted"}

\* Bounds of the exploration: the persons all cameras see together
MaxFusionPersons == 3

\* dict.get(key, default)
Get(d, key, default) == IF key \in DOMAIN d THEN d[key] ELSE default

\* the empty dict {}
EmptyDict == [x \in {} |-> TRUE]

RECURSIVE SeqOf(_)
\* list(S) of a set: its elements in some order
SeqOf(S) == IF S = {} THEN <<>>
            ELSE LET x == CHOOSE y \in S : TRUE IN <<x>> \o SeqOf(S \ {x})

\* What a camera's pipeline finds of a person: where it is, the colour the frame
\* shows there, and the status TemporalFilter.update returned for it.  The boxes
\* are those of the matcher: the first two are 0.5 apart, the third is far away.
PersonKinds ==
    {[bbox |-> b[1], colour |-> b[2], filtered_status |-> st] :
        b \in {<<(<<0, 0, 2, 2>>), "red">>, <<(<<0, 0, 3, 3>>), "red">>, <<(<<6, 0, 8, 2>>), "blue">>},
        st \in {StatusAtConstruction(<<NoHelmet>>), StatusAtConstruction(<<Compliant>>)}}

\* Observations that miss the vest, and both items
NoVest == [compliant |-> FALSE, detected_ppe |-> <<"helmet">>, missing_ppe |-> <<"vest">>]
NoHelmetNoVest == [compliant |-> FALSE, detected_ppe |-> <<>>, missing_ppe |-> <<"helmet", "vest">>]

\* What the two cameras find of one person who stands where both see it: the
\* boxes are 0.5 apart or the same, the statuses miss nothing, one item or both
MergeKinds ==
    {[bbox |-> b, colour |-> "red", filtered_status |-> StatusAtConstruction(<<obs>>)] :
        b \in {<<0, 0, 2, 2>>, <<0, 0, 3, 3>>},
        obs \in {Compliant, NoHelmet, NoVest, NoHelmetNoVest}}

\* "Prepare person data" of PoseBasedDetector.process_frame: person k of camera
\* cam.  keypoints, confidence, ppe_detections and compliance are left out; the
\* colour stands for the pixels of the frame inside the bbox.
PersonData(cam, k, kind) ==
    [person_id |-> 10 * cam + k, bbox |-> kind.bbox, colour |-> kind.colour,
     filtered_status |-> kind.filtered_status]

\* filtered_status["is_violation"] of a pipeline person
IsViolation(person) == person.filtered_status.is_violation

\* the result record a camera holds for the list persons: violations holds the
\* same person objects as persons, so it is always derived from persons
ResultOf(cam, persons) ==
    [persons |-> persons,
     violations |-> SelectSeq(persons, IsViolation),
     statistics |-> [total_persons |-> Len(persons),
                     compliant |-> Len(persons) - Len(SelectSeq(persons, IsViolation)),
                     violations |-> Len(SelectSeq(persons, IsViolation))],
     annotated_frame |-> [frame |-> cam]]

\* PoseBasedDetector.process_frame of camera cam: what it returns
ProcessFrame(cam) ==
    ResultOf(cam, [k \in 1..Len(pipeline_persons[cam]) |->
                      PersonData(cam, k, pipeline_persons[cam][k])])

\* FusionDetector._empty_results
EmptyResults ==
    [persons |-> <<>>, violations |-> <<>>,
     statistics |-> [total_persons |-> 0, violations |-> 0, compliance_rate |-> <<100, 1>>],
     annotated_frame |-> None, fusion_mode |-> "no_camera", active_cameras |-> <<>>]

\* A variant of TaggedResult that tags every result as single_camera
TaggedResultSingle(results, mode, active) ==
    Put(Put(results, "fusion_mode", "single_camera"), "active_cameras", active)

\* results["fusion_mode"] = mode; results["active_cameras"] = active: the
\* result object of the camera itself gets the two keys
TaggedResult(results, mode, active) ==
    Put(Put(results, "fusion_mode", mode), "active_cameras", active)

\* person.get("filtered_status", {}).get("has_violation", False)
HasViolation(person) ==
    Get(Get(person, "filtered_status", EmptyDict), "has_violation", FALSE)

\* A variant of MergeMissingPpe that keeps the items either camera misses
MergeMissingPpeEither(person1, person2) ==
    SeqOf(Range(Get(Get(person1, "filtered_status", EmptyDict), "missing_ppe", <<>>))
          \cup Range(Get(Get(person2, "filtered_status", EmptyDict), "missing_ppe", <<>>)))

\* FusionDetector._merge_missing_ppe: the items both cameras miss
MergeMissingPpe(person1, person2) ==
    SeqOf(Range(Get(Get(person1, "filtered_status", EmptyDict), "missing_ppe", <<>>))
          \cap Range(Get(Get(person2, "filtered_status", EmptyDict), "missing_ppe", <<>>)))

\* PersonMatcher.fuse_person_data: the persons of the pipeline have no track_id
\* and no ppe_status, so track_id is None and ppe_status is {}
FusePersonData(person_cam1, person_cam2, match_confidence) ==
    [track_id |-> Get(person_cam1, "track_id", Get(person_cam2, "track_id", None)),
     bbox_cam1 |-> Get(person_cam1, "bbox", None),
     bbox_cam2 |-> Get(person_cam2, "bbox", None),
     ppe_status |-> EmptyDict,
     match_confidence |-> match_confidence,
     person_cam1 |-> person_cam1,
     person_cam2 |-> person_cam2]

\* "Apply fusion strategy for violation detection"; confidence in millionths
FusedViolation(strategy, violation1, violation2, confidence) ==
    IF strategy = "or" THEN violation1 \/ violation2
    ELSE IF strategy = "and" THEN violation1 /\ violation2
    ELSE (violation1 \/ violation2) /\ confidence > 500000

\* "Process matched persons": the fused person of one match
FusedPerson(strategy, person1, person2, confidence) ==
    Put(FusePersonData(person1, person2, confidence), "filtered_status",
        [has_violation |-> FusedViolation(strategy, HasViolation(person1),
                                          HasViolation(person2), confidence),
         missing_ppe |-> MergeMissingPpe(person1, person2),
         cam1_violation |-> HasViolation(person1),
         cam2_violation |-> HasViolation(person2)])

\* "Add unmatched persons": the person object itself gets the two keys
TaggedPerson(person, cam_idx) ==
    Put(Put(person, "camera_source", cam_idx), "match_confidence", 0)

\* the persons of one camera after "Add unmatched persons": side is 1 or 2
AfterTagging(persons, ms, side, cam_idx) ==
    [k \in 1..Len(persons) |->
        IF \E m \in Range(ms) : m[side] = k THEN persons[k]
        ELSE TaggedPerson(persons[k], cam_idx)]

\* the unmatched persons of one camera, in list order, as appended to fused_persons
UnmatchedOf(persons, ms, side, cam_idx) ==
    LET Unmatched(k) == ~\E m \in Range(ms) : m[side] = k
        ks == SelectSeq([k \in 1..Len(persons) |-> k], Unmatched)
    IN [n \in 1..Len(ks) |-> TaggedPerson(persons[ks[n]], cam_idx)]

\* what match_persons can return for the two lists (frames are given)
MatchesOf(persons1, persons2) ==
    IF Len(persons1) = 0 \/ Len(persons2) = 0 THEN {<<>>}
    ELSE {FilterMatches(persons1, persons2, TRUE, A) :
             A \in MinCostAssignments(persons1, persons2, TRUE)}

\* FusionDetector._create_side_by_side_frame raises UnboundLocalError when both
\* frames are there: "import cv2" inside the function makes cv2 a local name,
\* and cv2.resize is called before that import statement
SideBySideRaises(frame1, frame2) == frame1 # None /\ frame2 # None

\* p.get("camera_source") == cam_idx
FromCamera(person, cam_idx) ==
    "camera_source" \in DOMAIN person /\ person.camera_source = cam_idx

\* the dict _fuse_two_cameras returns; compliance_rate is a pair num/den
TwoCameraResults(persons, violations, ms, cam1_idx, cam2_idx, annotated_frame) ==
    [persons |-> persons,
     violations |-> violations,
     statistics |->
        [total_persons |-> Len(persons),
         violations |-> Len(violations),
         compliance_rate |-> IF Len(persons) > 0
                             THEN <<(Len(persons) - Len(violations)) * 100, Len(persons)>>
                             ELSE <<100, 1>>,
         matched_persons |-> Len(ms),
         cam1_only |-> Cardinality({k \in 1..Len(persons) : FromCamera(persons[k], cam1_idx)}),
         cam2_only |-> Cardinality({k \in 1..Len(persons) : FromCamera(persons[k], cam2_idx)})],
     annotated_frame |-> annotated_frame,
     fusion_mode |-> "dual_camera",
     active_cameras |-> <<cam1_idx, cam2_idx>>,
     num_matches |-> Len(ms)]

\* FusionDetector._fuse_two_cameras on the results of cameras cam1_idx, cam2_idx
FuseTwoCameras(results, cam1_idx, cam2_idx) ==
    \E ms \in MatchesOf(results[cam1_idx].persons, results[cam2_idx].persons) :
    \E persons1 \in {results[cam1_idx].persons} :
    \E persons2 \in {results[cam2_idx].persons} :
    \E fused \in {[n \in 1..Len(ms) |->
                     FusedPerson(fusion_strategy, persons1[ms[n][1]], persons2[ms[n][2]], ms[n][3])]
                  \o UnmatchedOf(persons1, ms, 1, cam1_idx)
                  \o UnmatchedOf(persons2, ms, 2, cam2_idx)} :
       /\ fusion_matches' = ms
       /\ fused_persons' = fused
       /\ fused_violations' = SelectSeq(fused, HasViolation)
       /\ camera_results' =
             [results EXCEPT
                 ![cam1_idx] = ResultOf(cam1_idx, AfterTagging(persons1, ms, 1, cam1_idx)),
                 ![cam2_idx] = ResultOf(cam2_idx, AfterTagging(persons2, ms, 2, cam2_idx))]
       /\ IF SideBySideRaises(results[cam1_idx].annotated_frame,
                              results[cam2_idx].annotated_frame)
          THEN fused_results' = None /\ fusion_raised' = "UnboundLocalError"
          ELSE /\ fused_results' =
                     TwoCameraResults(fused, SelectSeq(fused, HasViolation), ms,
                                      cam1_idx, cam2_idx,
                                      IF results[cam1_idx].annotated_frame # None
                                      THEN results[cam1_idx].annotated_frame
                                      ELSE results[cam2_idx].annotated_frame)
               /\ fusion_raised' = "none"

\* FusionDetector.process_frames(frames): process_frame for every camera with a
\* frame, then _fuse_results
ProcessFrames ==
    /\ fusion_path = "idle"
    /\ \E results \in {[c \in Cameras |-> IF frames[c] THEN ProcessFrame(c) ELSE None]} :
       \E valid \in {SortedSeq({c \in Cameras : frames[c]})} :
          /\ produced' = results
          /\ IF Len(valid) = 0
             THEN /\ fusion_path' = "no_camera"
                  /\ fused_results' = EmptyResults
                  /\ camera_results' = results
                  /\ fusion_raised' = "none"
                  /\ UNCHANGED <<fused_persons, fused_violations, fusion_matches>>
             ELSE IF Len(valid) = 1
             THEN /\ fusion_path' = "single_camera"
                  /\ fused_results' = TaggedResult(results[valid[1]], "single_camera", <<valid[1]>>)
                  /\ camera_results' =
                        [results EXCEPT ![valid[1]] =
                            TaggedResult(results[valid[1]], "single_camera", <<valid[1]>>)]
                  /\ fusion_raised' = "none"
                  /\ UNCHANGED <<fused_persons, fused_violations, fusion_matches>>
             ELSE IF Len(valid) = 2
             THEN /\ fusion_path' = "two_cameras"
                  /\ FuseTwoCameras(results, valid[1], valid[2])
             ELSE /\ fusion_path' = "multi_camera_partial"
                  /\ fused_results' = TaggedResult(results[valid[1]], "multi_camera_partial", valid)
                  /\ camera_results' =
                        [results EXCEPT ![valid[1]] =
                            TaggedResult(results[valid[1]], "multi_camera_partial", valid)]
                  /\ fusion_raised' = "none"
                  /\ UNCHANGED <<fused_persons, fused_violations, fusion_matches>>
    /\ UNCHANGED <<fusion_strategy, frames, pipeline_persons, trackerVars, filterVars, matcherVars,
                   twoTrackerVars, pipelineVars>>

----------------------------------------------------------------------------
(* Two PersonTracker instances, one per camera (core/tracker.py).  Both create
   their tracks with Track.__init__, which numbers them from the class
   attribute Track._id_counter.  Of update() this part keeps what decides the
   ids and the life of the tracks: which tracks the association matched and how
   many detections it left unmatched are chosen freely, boxes are left out. *)

Trackers == {"A", "B"}

\* every other variable of the single tracker above
singleTrackerVars == <<tracks, frame_count, tracker_min_hits, detections, tracked, raised,
                       matched, assigned, evicted, born, unbroken>>

\* update() up to "Update matched tracks": every track predicted, the tracks in
\* hit matched
PtPredictAndMatch(trks, hit) ==
    [k \in 1..Len(trks) |->
        [trks[k] EXCEPT !.time_since_update = IF k \in hit THEN 0 ELSE @ + 1]]

PtIsAlive(t) == t.time_since_update <= max_age

\* the new tracks for n unmatched detections when nothing else runs in between
PtNewTracks(counter, n) == [k \in 1..n |-> [id |-> counter + k - 1, time_since_update |-> 0]]

\* the inputs of one update() call of tracker t: the matched tracks and the
\* number of unmatched detections, at most MaxDets detections together
PtInputs(t) ==
    {in \in (SUBSET (1..Len(pt_tracks[t]))) \X (0..MaxDets) :
        Cardinality(in[1]) + in[2] <= MaxDets}

\* The thread of tracker t enters update(): predict, associate, update matched
PtBeginUpdate(t) ==
    /\ pt_pc[t] = "idle"
    /\ pt_frame_count[t] < MaxFrames
    /\ \E in \in PtInputs(t) :
          /\ pt_tracks' = [pt_tracks EXCEPT ![t] = PtPredictAndMatch(pt_tracks[t], in[1])]
          /\ pt_pending' = [pt_pending EXCEPT ![t] = in[2]]
          /\ pt_pc' = [pt_pc EXCEPT ![t] = IF in[2] > 0 THEN "create" ELSE "finish"]
    /\ pt_frame_count' = [pt_frame_count EXCEPT ![t] = @ + 1]
    /\ UNCHANGED <<pt_self_id, pt_assigned, trackerVars, filterVars, matcherVars, fusionVars, pipelineVars>>

\* Track.__init__, "self.id = Track._id_counter"
PtReadCounter(t) ==
    /\ pt_pc[t] = "create"
    /\ pt_self_id' = [pt_self_id EXCEPT ![t] = Track_id_counter]
    /\ pt_pc' = [pt_pc EXCEPT ![t] = "increment"]
    /\ UNCHANGED <<pt_tracks, pt_frame_count, pt_pending, pt_assigned,
                   trackerVars, filterVars, matcherVars, fusionVars, pipelineVars>>

\* Track.__init__, "Track._id_counter += 1", and self.tracks.append(new_track)
PtIncrementCounter(t) ==
    /\ pt_pc[t] = "increment"
    /\ Track_id_counter' = Track_id_counter + 1
    /\ pt_tracks' = [pt_tracks EXCEPT ![t] =
                        Append(@, [id |-> pt_self_id[t], time_since_update |-> 0])]
    /\ pt_assigned' = [pt_assigned EXCEPT ![t] = Append(@, pt_self_id[t])]
    /\ pt_pending' = [pt_pending EXCEPT ![t] = @ - 1]
    /\ pt_pc' = [pt_pc EXCEPT ![t] = IF pt_pending[t] > 1 THEN "create" ELSE "finish"]
    /\ UNCHANGED <<pt_frame_count, pt_self_id, singleTrackerVars,
                   filterVars, matcherVars, fusionVars, pipelineVars>>

\* "Remove dead tracks", and update() returns
PtFinishUpdate(t) ==
    /\ pt_pc[t] = "finish"
    /\ pt_tracks' = [pt_tracks EXCEPT ![t] = SelectSeq(@, PtIsAlive)]
    /\ pt_pc' = [pt_pc EXCEPT ![t] = "idle"]
    /\ UNCHANGED <<pt_frame_count, pt_pending, pt_self_id, pt_assigned,
                   trackerVars, filterVars, matcherVars, fusionVars, pipelineVars>>

\* A complete update() call of tracker t, nothing running in between
PtUpdate(t) ==
    /\ pt_frame_count[t] < MaxFrames
    /\ \E in \in PtInputs(t) :
          /\ pt_tracks' = [pt_tracks EXCEPT ![t] =
                SelectSeq(PtPredictAndMatch(pt_tracks[t], in[1])
                          \o PtNewTracks(Track_id_counter, in[2]), PtIsAlive)]
          /\ Track_id_counter' = Track_id_counter + in[2]
          /\ pt_assigned' = [pt_assigned EXCEPT ![t] =
                @ \o [k \in 1..in[2] |-> Track_id_counter + k - 1]]
    /\ pt_frame_count' = [pt_frame_count EXCEPT ![t] = @ + 1]
    /\ UNCHANGED <<pt_pc, pt_pending, pt_self_id, singleTrackerVars,
                   filterVars, matcherVars, fusionVars, pipelineVars>>

\* PersonTracker.reset() of tracker t
PtReset(t) ==
    /\ pt_tracks' = [pt_tracks EXCEPT ![t] = <<>>]
    /\ pt_frame_count' = [pt_frame_count EXCEPT ![t] = 0]
    /\ Track_id_counter' = 0
    /\ pt_assigned' = [pt_assigned EXCEPT ![t] = <<>>]
    /\ UNCHANGED <<pt_pc, pt_pending, pt_self_id, singleTrackerVars,
                   filterVars, matcherVars, fusionVars, pipelineVars>>

----------------------------------------------------------------------------
(* A FusionDetector and the state of its camera pipelines: every camera has a
   PoseBasedDetector with its own PersonTracker, TemporalFilter and
   frame_count (core/fusion_detector.py, core/pose_based_detector.py).  Of the
   trackers this part keeps the ids, hits and time_since_update of the tracks;
   which tracks the association matched and how many detections it left
   unmatched are chosen freely, boxes (and the Kalman filter) are left out. *)

\* FusionDetector.num_cameras of the detector under check: one per camera
num_cameras == Cardinality(Cameras)

\* config["tracking"]["min_hits"] of the camera pipelines
pipeline_min_hits == 2

\* Bounds of the exploration: process_frames() calls, and the tracks all the
\* cameras create together
MaxCalls == 4
MaxTracks == 2

\* The frames arguments in play: TRUE is a frame, FALSE is None; every list of
\* num_cameras entries, and the lists of frames that are one too short and one
\* too long
FrameLists ==
    [1..num_cameras -> BOOLEAN]
    \cup {[k \in 1..(num_cameras - 1) |-> TRUE], [k \in 1..(num_cameras + 1) |-> TRUE]}

\* Track.__init__ for the n unmatched detections of a call
PipelineNewTracks(counter, n) ==
    [k \in 1..n |-> [id |-> counter + k - 1, hits |-> 1, time_since_update |-> 0]]

\* Track.predict for every track, then Track.update for the tracks in hit
PipelinePredictAndMatch(trks, hit) ==
    [k \in 1..Len(trks) |->
        IF k \in hit
        THEN [trks[k] EXCEPT !.hits = (IF trks[k].time_since_update > 0 THEN 0 ELSE @) + 1,
                             !.time_since_update = 0]
        ELSE [trks[k] EXCEPT !.hits = IF trks[k].time_since_update > 0 THEN 0 ELSE @,
                             !.time_since_update = @ + 1]]

\* "Return tracked detections": the ids PersonTracker.update reports, for the
\* track indices hit of the association step and the list kept of the tracks
\* after the removal of the dead ones
PipelineReported(kept, hit) ==
    {kept[j].id : j \in {i \in hit : i <= Len(kept) /\ kept[i].hits >= pipeline_min_hits}}

\* the inputs of one process_frame() call: the matched tracks, the number of
\* unmatched detections (at most MaxDets detections together), and what the
\* PPE detector sees of the reported persons (nothing to see when no track is
\* matched); one input where no call is made
PipelineInputs(trks, called) ==
    IF called
    THEN {in \in [hit : SUBSET (1..Len(trks)), new : 0..MaxDets, obs : Observations] :
             /\ Cardinality(in.hit) + in.new <= MaxDets
             /\ Track_id_counter + in.new <= MaxTracks
             /\ in.hit = {} => in.obs = Compliant}
    ELSE {[hit |-> {}, new |-> 0, obs |-> Compliant]}

\* TemporalFilter.update for every id of the set ids: <<buffers, status>> afterwards
RECURSIVE UpdateAll(_, _, _, _)
UpdateAll(buffers, status, ids, obs) ==
    IF ids = {} THEN <<buffers, status>>
    ELSE LET id == CHOOSE x \in ids : TRUE
             buffer == DequeAppend(IF id \in DOMAIN buffers THEN buffers[id] ELSE <<>>, obs)
         IN UpdateAll(Put(buffers, id, buffer),
                      IF Len(buffer) = 0 THEN status
                      ELSE Put(status, id, StatusAtConstruction(buffer)),
                      ids \ {id}, obs)

\* PoseBasedDetector.process_frame of camera c on the pipelines st, with the
\* inputs in: frame_count += 1, tracker.update (which raises IndexError when the
\* report loop indexes past the end of the shortened track list), then
\* temporal_filter.update for every reported person and cleanup_old_tracks
PipelineTick(st, c, in) ==
    LET kept == SelectSeq(PipelinePredictAndMatch(st.tracks[c], in.hit)
                          \o PipelineNewTracks(st.counter, in.new), PtIsAlive)
        raises == \E j \in in.hit : j > Len(kept)
        reported == PipelineReported(kept, in.hit)
        updated == UpdateAll(st.buffers[c], st.status[c], reported, in.obs)
        left == RemoveAll(updated[1], updated[2], DOMAIN updated[1] \ reported)
        ticked == [st EXCEPT !.frame_count[c] = @ + 1,
                             !.tracker_frame_count[c] = @ + 1,
                             !.tracks[c] = kept,
                             !.counter = @ + in.new]
    IN IF raises
       THEN [ticked EXCEPT !.raised = "IndexError",
                           !.outcome[c] = "raised",
                           !.streak[c] = <<>>]
       ELSE [ticked EXCEPT !.buffers[c] = left[1],
                           !.status[c] = left[2],
                           !.reported[c] = reported,
                           !.outcome[c] = "returned",
                           !.streak[c] = [id \in reported |->
                                             IF id \in DOMAIN st.streak[c]
                                             THEN st.streak[c][id] + 1 ELSE 1]]

\* One round of the loop "Process each camera independently": nothing for a
\* camera whose frame is None, and nothing any more once a pipeline has raised
PipelineStep(st, c, given, in) ==
    IF st.raised # "none" THEN st
    ELSE IF ~given[c + 1] THEN [st EXCEPT !.outcome[c] = "skipped"]
    ELSE PipelineTick(st, c, in)

\* _fuse_results on the results of the cameras that had a frame: only the
\* two-camera branch calls _create_side_by_side_frame, always with the two
\* annotated frames process_frame returned
FuseRaises(given) ==
    LET valid == SortedSeq({c \in Cameras : given[c + 1]})
    IN Len(valid) = 2 /\ SideBySideRaises([frame |-> valid[1]], [frame |-> valid[2]])

\* the pipelines as the variables hold them
Pipelines ==
    [counter |-> Track_id_counter, frame_count |-> det_frame_count,
     tracker_frame_count |-> det_tracker_frame_count, tracks |-> det_tracks,
     buffers |-> det_buffers, status |-> det_status, streak |-> det_streak,
     reported |-> [c \in Cameras |-> {}],
     outcome |-> [c \in Cameras |-> "not_reached"],
     raised |-> "none"]

\* A variant of ProcessFramesCall that checks the number of frames after the
\* camera loop
ProcessFramesCallLateCheck(given, in0, in1, in2) ==
    \E padded \in {[k \in 1..num_cameras |-> IF k <= Len(given) THEN given[k] ELSE FALSE]} :
    \E s0 \in {PipelineStep(Pipelines, 0, padded, in0)} :
    \E s1 \in {PipelineStep(s0, 1, padded, in1)} :
    \E st \in {PipelineStep(s1, 2, padded, in2)} :
       /\ Track_id_counter' = st.counter
       /\ det_frame_count' = st.frame_count
       /\ det_tracker_frame_count' = st.tracker_frame_count
       /\ det_tracks' = st.tracks
       /\ det_buffers' = st.buffers
       /\ det_status' = st.status
       /\ det_streak' = st.streak
       /\ det_reported' = st.reported
       /\ det_outcome' = st.outcome
       /\ pf_raised' = IF st.raised # "none" THEN st.raised
                       ELSE IF Len(given) # num_cameras THEN "ValueError"
                       ELSE IF FuseRaises(given) THEN "UnboundLocalError"
                       ELSE "none"

\* FusionDetector.process_frames(given), with the inputs of the three pipelines
ProcessFramesCall(given, in0, in1, in2) ==
    IF Len(given) # num_cameras
    THEN /\ pf_raised' = "ValueError"
         /\ det_reported' = [c \in Cameras |-> {}]
         /\ det_outcome' = [c \in Cameras |-> "not_reached"]
         /\ UNCHANGED <<Track_id_counter, det_frame_count, det_tracker_frame_count,
                        det_tracks, det_buffers, det_status, det_streak>>
    ELSE \E s0 \in {PipelineStep(Pipelines, 0, given, in0)} :
         \E s1 \in {PipelineStep(s0, 1, given, in1)} :
         \E st \in {PipelineStep(s1, 2, given, in2)} :
            /\ Track_id_counter' = st.counter
            /\ det_frame_count' = st.frame_count
            /\ det_tracker_frame_count' = st.tracker_frame_count
            /\ det_tracks' = st.tracks
            /\ det_buffers' = st.buffers
            /\ det_status' = st.status
            /\ det_streak' = st.streak
            /\ det_reported' = st.reported
            /\ det_outcome' = st.outcome
            /\ pf_raised' = IF st.raised # "none" THEN st.raised
                            ELSE IF FuseRaises(given) THEN "UnboundLocalError"
                            ELSE "none"

\* A process_frames() call of the application
CallProcessFrames ==
    /\ pf_calls < MaxCalls
    /\ \E given \in FrameLists :
       \E in0 \in PipelineInputs(det_tracks[0], Len(given) = num_cameras /\ given[1]),
          in1 \in PipelineInputs(det_tracks[1], Len(given) = num_cameras /\ given[2]),
          in2 \in PipelineInputs(det_tracks[2], Len(given) = num_cameras /\ given[3]) :
          /\ given_frames' = given
          /\ ProcessFramesCall(given, in0, in1, in2)
    /\ pf_calls' = pf_calls + 1
    /\ UNCHANGED <<singleTrackerVars, filterVars, matcherVars, fusionVars, twoTrackerVars>>

----------------------------------------------------------------------------
(* The state after construction, and the specifications *)

\* The state after construction of a PersonTracker and a TemporalFilter, with no
\* match_persons() call under way
Init ==
    /\ Track_id_counter = 0
    /\ tracks = <<>>
    /\ frame_count = 0
    /\ tracker_min_hits = min_hits
    /\ detections = <<>>
    /\ tracked = <<>>
    /\ raised = "none"
    /\ matched = <<>>
    /\ assigned = {}
    /\ evicted = {}
    /\ born = <<>>
    /\ unbroken = {}
    /\ person_buffers = <<>>
    /\ person_status = <<>>
    /\ violation_threshold = <<violation_threshold_num, violation_threshold_den>>
    /\ returned = None
    /\ call = [op |-> "init"]
    /\ observed = <<>>
    /\ persons_cam1 = <<>>
    /\ persons_cam2 = <<>>
    /\ frames_given = FALSE
    /\ match_done = TRUE
    /\ assignment = {}
    /\ matches = <<>>
    /\ fusion_strategy = "or"
    /\ frames = [c \in Cameras |-> FALSE]
    /\ pipeline_persons = [c \in Cameras |-> <<>>]
    /\ produced = [c \in Cameras |-> None]
    /\ camera_results = [c \in Cameras |-> None]
    /\ fusion_path = "unused"
    /\ fused_persons = <<>>
    /\ fused_violations = <<>>
    /\ fusion_matches = <<>>
    /\ fused_results = None
    /\ fusion_raised = "none"
    /\ pt_tracks = [t \in Trackers |-> <<>>]
    /\ pt_frame_count = [t \in Trackers |-> 0]
    /\ pt_pc = [t \in Trackers |-> "idle"]
    /\ pt_pending = [t \in Trackers |-> 0]
    /\ pt_self_id = [t \in Trackers |-> 0]
    /\ pt_assigned = [t \in Trackers |-> <<>>]
    /\ given_frames = <<>>
    /\ pf_calls = 0
    /\ pf_raised = "none"
    /\ det_frame_count = [c \in Cameras |-> 0]
    /\ det_tracker_frame_count = [c \in Cameras |-> 0]
    /\ det_tracks = [c \in Cameras |-> <<>>]
    /\ det_buffers = [c \in Cameras |-> <<>>]
    /\ det_status = [c \in Cameras |-> <<>>]
    /\ det_streak = [c \in Cameras |-> <<>>]
    /\ det_reported = [c \in Cameras |-> {}]
    /\ det_outcome = [c \in Cameras |-> "not_reached"]

\* The same, with the arguments of a match_persons() call
InitMatcher ==
    /\ Track_id_counter = 0
    /\ tracks = <<>>
    /\ frame_count = 0
    /\ tracker_min_hits = min_hits
    /\ detections = <<>>
    /\ tracked = <<>>
    /\ raised = "none"
    /\ matched = <<>>
    /\ assigned = {}
    /\ evicted = {}
    /\ born = <<>>
    /\ unbroken = {}
    /\ person_buffers = <<>>
    /\ person_status = <<>>
    /\ violation_threshold = <<violation_threshold_num, violation_threshold_den>>
    /\ returned = None
    /\ call = [op |-> "init"]
    /\ observed = <<>>
    /\ persons_cam1 \in PersonLists
    /\ persons_cam2 \in PersonLists
    /\ frames_given \in BOOLEAN
    /\ match_done = FALSE
    /\ assignment = {}
    /\ matches = <<>>
    /\ fusion_strategy = "or"
    /\ frames = [c \in Cameras |-> FALSE]
    /\ pipeline_persons = [c \in Cameras |-> <<>>]
    /\ produced = [c \in Cameras |-> None]
    /\ camera_results = [c \in Cameras |-> None]
    /\ fusion_path = "unused"
    /\ fused_persons = <<>>
    /\ fused_violations = <<>>
    /\ fusion_matches = <<>>
    /\ fused_results = None
    /\ fusion_raised = "none"
    /\ pt_tracks = [t \in Trackers |-> <<>>]
    /\ pt_frame_count = [t \in Trackers |-> 0]
    /\ pt_pc = [t \in Trackers |-> "idle"]
    /\ pt_pending = [t \in Trackers |-> 0]
    /\ pt_self_id = [t \in Trackers |-> 0]
    /\ pt_assigned = [t \in Trackers |-> <<>>]
    /\ given_frames = <<>>
    /\ pf_calls = 0
    /\ pf_raised = "none"
    /\ det_frame_count = [c \in Cameras |-> 0]
    /\ det_tracker_frame_count = [c \in Cameras |-> 0]
    /\ det_tracks = [c \in Cameras |-> <<>>]
    /\ det_buffers = [c \in Cameras |-> <<>>]
    /\ det_status = [c \in Cameras |-> <<>>]
    /\ det_streak = [c \in Cameras |-> <<>>]
    /\ det_reported = [c \in Cameras |-> {}]
    /\ det_outcome = [c \in Cameras |-> "not_reached"]

\* The same, with the arguments of a process_frames() call and what the
\* cameras see
InitFusion ==
    /\ Track_id_counter = 0
    /\ tracks = <<>>
    /\ frame_count = 0
    /\ tracker_min_hits = min_hits
    /\ detections = <<>>
    /\ tracked = <<>>
    /\ raised = "none"
    /\ matched = <<>>
    /\ assigned = {}
    /\ evicted = {}
    /\ born = <<>>
    /\ unbroken = {}
    /\ person_buffers = <<>>
    /\ person_status = <<>>
    /\ violation_threshold = <<violation_threshold_num, violation_threshold_den>>
    /\ returned = None
    /\ call = [op |-> "init"]
    /\ observed = <<>>
    /\ persons_cam1 = <<>>
    /\ persons_cam2 = <<>>
    /\ frames_given = FALSE
    /\ match_done = TRUE
    /\ assignment = {}
    /\ matches = <<>>
    /\ fusion_strategy \in Strategies
    /\ frames \in [Cameras -> BOOLEAN]
    /\ \E lens \in {l \in [Cameras -> 0..MaxFusionPersons] :
                       /\ l[0] + l[1] + l[2] <= MaxFusionPersons
                       /\ \A c \in Cameras : ~frames[c] => l[c] = 0} :
          \E p0 \in [1..lens[0] -> PersonKinds], p1 \in [1..lens[1] -> PersonKinds],
             p2 \in [1..lens[2] -> PersonKinds] :
                pipeline_persons = (0 :> p0 @@ 1 :> p1 @@ 2 :> p2)
    /\ produced = [c \in Cameras |-> None]
    /\ camera_results = [c \in Cameras |-> None]
    /\ fusion_path = "idle"
    /\ fused_persons = <<>>
    /\ fused_violations = <<>>
    /\ fusion_matches = <<>>
    /\ fused_results = None
    /\ fusion_raised = "none"
    /\ pt_tracks = [t \in Trackers |-> <<>>]
    /\ pt_frame_count = [t \in Trackers |-> 0]
    /\ pt_pc = [t \in Trackers |-> "idle"]
    /\ pt_pending = [t \in Trackers |-> 0]
    /\ pt_self_id = [t \in Trackers |-> 0]
    /\ pt_assigned = [t \in Trackers |-> <<>>]
    /\ given_frames = <<>>
    /\ pf_calls = 0
    /\ pf_raised = "none"
    /\ det_frame_count = [c \in Cameras |-> 0]
    /\ det_tracker_frame_count = [c \in Cameras |-> 0]
    /\ det_tracks = [c \in Cameras |-> <<>>]
    /\ det_buffers = [c \in Cameras |-> <<>>]
    /\ det_status = [c \in Cameras |-> <<>>]
    /\ det_streak = [c \in Cameras |-> <<>>]
    /\ det_reported = [c \in Cameras |-> {}]
    /\ det_outcome = [c \in Cameras |-> "not_reached"]

\* The same, with the arguments of a process_frames() call in which two cameras
\* see one person each
InitMerge ==
    /\ Track_id_counter = 0
    /\ tracks = <<>>
    /\ frame_count = 0
    /\ tracker_min_hits = min_hits
    /\ detections = <<>>
    /\ tracked = <<>>
    /\ raised = "none"
    /\ matched = <<>>
    /\ assigned = {}
    /\ evicted = {}
    /\ born = <<>>
    /\ unbroken = {}
    /\ person_buffers = <<>>
    /\ person_status = <<>>
    /\ violation_threshold = <<violation_threshold_num, violation_threshold_den>>
    /\ returned = None
    /\ call = [op |-> "init"]
    /\ observed = <<>>
    /\ persons_cam1 = <<>>
    /\ persons_cam2 = <<>>
    /\ frames_given = FALSE
    /\ match_done = TRUE
    /\ assignment = {}
    /\ matches = <<>>
    /\ fusion_strategy \in Strategies
    /\ frames = (0 :> TRUE @@ 1 :> TRUE @@ 2 :> FALSE)
    /\ \E kind1 \in MergeKinds, kind2 \in MergeKinds :
          pipeline_persons = (0 :> <<kind1>> @@ 1 :> <<kind2>> @@ 2 :> <<>>)
    /\ produced = [c \in Cameras |-> None]
    /\ camera_results = [c \in Cameras |-> None]
    /\ fusion_path = "idle"
    /\ fused_persons = <<>>
    /\ fused_violations = <<>>
    /\ fusion_matches = <<>>
    /\ fused_results = None
    /\ fusion_raised = "none"
    /\ pt_tracks = [t \in Trackers |-> <<>>]
    /\ pt_frame_count = [t \in Trackers |-> 0]
    /\ pt_pc = [t \in Trackers |-> "idle"]
    /\ pt_pending = [t \in Trackers |-> 0]
    /\ pt_self_id = [t \in Trackers |-> 0]
    /\ pt_assigned = [t \in Trackers |-> <<>>]
    /\ given_frames = <<>>
    /\ pf_calls = 0
    /\ pf_raised = "none"
    /\ det_frame_count = [c \in Cameras |-> 0]
    /\ det_tracker_frame_count = [c \in Cameras |-> 0]
    /\ det_tracks = [c \in Cameras |-> <<>>]
    /\ det_buffers = [c \in Cameras |-> <<>>]
    /\ det_status = [c \in Cameras |-> <<>>]
    /\ det_streak = [c \in Cameras |-> <<>>]
    /\ det_reported = [c \in Cameras |-> {}]
    /\ det_outcome = [c \in Cameras |-> "not_reached"]

\* The state after construction of PersonTracker(min_hits=1)
InitSingleDetection ==
    /\ Track_id_counter = 0
    /\ tracks = <<>>
    /\ frame_count = 0
    /\ tracker_min_hits = min_hits_single_detection
    /\ detections = <<>>
    /\ tracked = <<>>
    /\ raised = "none"
    /\ matched = <<>>
    /\ assigned = {}
    /\ evicted = {}
    /\ born = <<>>
    /\ unbroken = {}
    /\ person_buffers = <<>>
    /\ person_status = <<>>
    /\ violation_threshold = <<violation_threshold_num, violation_threshold_den>>
    /\ returned = None
    /\ call = [op |-> "init"]
    /\ observed = <<>>
    /\ persons_cam1 = <<>>
    /\ persons_cam2 = <<>>
    /\ frames_given = FALSE
    /\ match_done = TRUE
    /\ assignment = {}
    /\ matches = <<>>
    /\ fusion_strategy = "or"
    /\ frames = [c \in Cameras |-> FALSE]
    /\ pipeline_persons = [c \in Cameras |-> <<>>]
    /\ produced = [c \in Cameras |-> None]
    /\ camera_results = [c \in Cameras |-> None]
    /\ fusion_path = "unused"
    /\ fused_persons = <<>>
    /\ fused_violations = <<>>
    /\ fusion_matches = <<>>
    /\ fused_results = None
    /\ fusion_raised = "none"
    /\ pt_tracks = [t \in Trackers |-> <<>>]
    /\ pt_frame_count = [t \in Trackers |-> 0]
    /\ pt_pc = [t \in Trackers |-> "idle"]
    /\ pt_pending = [t \in Trackers |-> 0]
    /\ pt_self_id = [t \in Trackers |-> 0]
    /\ pt_assigned = [t \in Trackers |-> <<>>]
    /\ given_frames = <<>>
    /\ pf_calls = 0
    /\ pf_raised = "none"
    /\ det_frame_count = [c \in Cameras |-> 0]
    /\ det_tracker_frame_count = [c \in Cameras |-> 0]
    /\ det_tracks = [c \in Cameras |-> <<>>]
    /\ det_buffers = [c \in Cameras |-> <<>>]
    /\ det_status = [c \in Cameras |-> <<>>]
    /\ det_streak = [c \in Cameras |-> <<>>]
    /\ det_reported = [c \in Cameras |-> {}]
    /\ det_outcome = [c \in Cameras |-> "not_reached"]

\* The state after construction of the PersonTracker of a camera pipeline
InitRematch ==
    /\ Track_id_counter = 0
    /\ tracks = <<>>
    /\ frame_count = 0
    /\ tracker_min_hits = pipeline_min_hits
    /\ detections = <<>>
    /\ tracked = <<>>
    /\ raised = "none"
    /\ matched = <<>>
    /\ assigned = {}
    /\ evicted = {}
    /\ born = <<>>
    /\ unbroken = {}
    /\ person_buffers = <<>>
    /\ person_status = <<>>
    /\ violation_threshold = <<violation_threshold_num, violation_threshold_den>>
    /\ returned = None
    /\ call = [op |-> "init"]
    /\ observed = <<>>
    /\ persons_cam1 = <<>>
    /\ persons_cam2 = <<>>
    /\ frames_given = FALSE
    /\ match_done = TRUE
    /\ assignment = {}
    /\ matches = <<>>
    /\ fusion_strategy = "or"
    /\ frames = [c \in Cameras |-> FALSE]
    /\ pipeline_persons = [c \in Cameras |-> <<>>]
    /\ produced = [c \in Cameras |-> None]
    /\ camera_results = [c \in Cameras |-> None]
    /\ fusion_path = "unused"
    /\ fused_persons = <<>>
    /\ fused_violations = <<>>
    /\ fusion_matches = <<>>
    /\ fused_results = None
    /\ fusion_raised = "none"
    /\ pt_tracks = [t \in Trackers |-> <<>>]
    /\ pt_frame_count = [t \in Trackers |-> 0]
    /\ pt_pc = [t \in Trackers |-> "idle"]
    /\ pt_pending = [t \in Trackers |-> 0]
    /\ pt_self_id = [t \in Trackers |-> 0]
    /\ pt_assigned = [t \in Trackers |-> <<>>]
    /\ given_frames = <<>>
    /\ pf_calls = 0
    /\ pf_raised = "none"
    /\ det_frame_count = [c \in Cameras |-> 0]
    /\ det_tracker_frame_count = [c \in Cameras |-> 0]
    /\ det_tracks = [c \in Cameras |-> <<>>]
    /\ det_buffers = [c \in Cameras |-> <<>>]
    /\ det_status = [c \in Cameras |-> <<>>]
    /\ det_streak = [c \in Cameras |-> <<>>]
    /\ det_reported = [c \in Cameras |-> {}]
    /\ det_outcome = [c \in Cameras |-> "not_reached"]

NextTracker == Update

NextCrowd == UpdateCrowd

NextOverlap == UpdateOverlap

NextFilter ==
    \/ FilterUpdate
    \/ RemovePerson
    \/ CleanupOldTracks
    \/ FilterReset

\* one TemporalFilter whose threshold is set between the updates
NextThreshold == FilterUpdateFew \/ SetViolationThreshold

\* one TemporalFilter that is queried between the calls that change it
NextQueries ==
    \/ FilterUpdateFew
    \/ RemovePerson
    \/ CleanupOldTracks
    \/ FilterReset
    \/ GetStatus
    \/ GetPersonHistory
    \/ GetStatistics

NextMatcher == MatchPersons

NextFusion == ProcessFrames

\* two trackers, their update() calls in parallel threads
NextParallel ==
    \E t \in Trackers :
       PtBeginUpdate(t) \/ PtReadCounter(t) \/ PtIncrementCounter(t) \/ PtFinishUpdate(t)

\* two trackers, complete update() and reset() calls in any order
NextTwoTrackers == \E t \in Trackers : PtUpdate(t) \/ PtReset(t)

\* a FusionDetector, process_frames() calls only
NextPipelines == CallProcessFrames

Next ==
    \/ NextTracker \/ NextFilter \/ NextMatcher \/ NextFusion \/ NextParallel \/ NextTwoTrackers
    \/ NextPipelines \/ NextThreshold \/ NextCrowd \/ NextOverlap \/ NextQueries

\* one PersonTracker, update() calls only
SpecTracker == Init /\ [][NextTracker]_vars

\* one TemporalFilter
SpecFilter == Init /\ [][NextFilter]_vars

\* one match_persons() call on any arguments
SpecMatcher == InitMatcher /\ [][NextMatcher]_vars

SpecFusion == InitFusion /\ [][NextFusion]_vars

\* one process_frames() call in which two cameras see one person each
SpecMerge == InitMerge /\ [][NextFusion]_vars

\* one PersonTracker(min_hits=1), update() calls only
SpecSingleDetection == InitSingleDetection /\ [][NextTracker]_vars

SpecParallel == Init /\ [][NextParallel]_vars

SpecTwoTrackers == Init /\ [][NextTwoTrackers]_vars

\* the PersonTracker of a camera pipeline, update() calls only
SpecRematch == InitRematch /\ [][NextCrowd]_vars

\* the same tracker in the scene of two people side by side
SpecOverlap == InitRematch /\ [][NextOverlap]_vars

SpecPipelines == Init /\ [][NextPipelines]_vars

SpecThreshold == Init /\ [][NextThreshold]_vars

SpecQueries == Init /\ [][NextQueries]_vars

\* everything together
Spec == InitMatcher /\ [][Next]_vars


----------------------------------------------------------------------------
(* Claims about PersonTracker (checked under SpecTracker) *)

LiveIdsDistinct(trks) ==
    \A i, j \in 1..Len(trks) : i # j => trks[i].id # trks[j].id

ConfirmedMatch(m) == GetTrackById(tracks, m[2]).hits >= tracker_min_hits

ExpectedReport ==
    LET confirmed == SelectSeq(matched, ConfirmedMatch)
    IN [k \in 1..Len(confirmed) |->
           [det |-> confirmed[k][1],
            person_id |-> confirmed[k][2],
            bbox |-> GetTrackById(tracks, confirmed[k][2]).bbox]]

\* C2: in every update() call each detection that the association step matched
\* to a track with hits >= min_hits yields exactly one output record carrying
\* that track's id and bbox, the output holds nothing else, and the call
\* completes without raising, also when other tracks are evicted or spawned in
\* the same call.  (Stated for the calls that reach the association step.)
C2_ReportsMatched ==
    raised # "ValueError" => (raised = "none" /\ tracked = ExpectedReport)

\* The number of update() calls a track has lived through, its creation included
Ticks(id) == frame_count - born[id] + 1

\* C3: a track id appears in the output of a call only if that track has
\* hits >= min_hits at that moment, where hits counts the track's creation plus
\* the consecutive calls in which it was matched since; a track matched in every
\* call since its creation is absent from the output of its first min_hits - 1
\* calls and is reported from call min_hits onward.
C3_ConfirmationLatency ==
    /\ \A k \in 1..Len(tracked) :
          /\ tracked[k].person_id \in Ids(tracks)
          /\ GetTrackById(tracks, tracked[k].person_id).hits >= tracker_min_hits
    /\ \A i \in 1..Len(tracks) :
          tracks[i].id \in unbroken =>
             /\ tracks[i].hits = Ticks(tracks[i].id)
             /\ (Ticks(tracks[i].id) >= tracker_min_hits
                   <=> \E k \in 1..Len(tracked) : tracked[k].person_id = tracks[i].id)

\* C4: after every update() call each track still held has
\* time_since_update <= max_age, and the id of a removed track is neither held
\* nor reported afterwards.
C4_Eviction ==
    /\ \A i \in 1..Len(tracks) : tracks[i].time_since_update <= max_age
    /\ evicted \cap Ids(tracks) = {}
    /\ \A k \in 1..Len(tracked) : tracked[k].person_id \notin evicted


----------------------------------------------------------------------------
(* Claims about TemporalFilter (checked under SpecFilter) *)

\* The observations of the person of the last update() call that count: the
\* last min(n, buffer_size) of the n fed since its buffer was created
Window == LastN(observed[call.person_id], Min(Len(observed[call.person_id]), buffer_size))

NonCompliant(obs) == ~obs.compliant

C6_SingleFrame ==
    (/\ call.op = "update"
     /\ Len(observed[call.person_id]) = 1
     /\ ~call.obs.compliant) => ~returned.is_violation

\* C7: after cleanup_old_tracks(active_ids) the ids that have a buffer or a
\* status are exactly the previously known ids that are in active_ids, their
\* buffers and statuses are unchanged, get_status of a removed id returns None,
\* and the next update() for an id without a buffer computes its ratio over the
\* single new observation.
C7_Cleanup ==
    [][/\ call'.op = "cleanup_old_tracks" =>
             /\ DOMAIN person_buffers' = DOMAIN person_buffers \cap call'.active
             /\ DOMAIN person_status' = DOMAIN person_status \cap call'.active
             /\ \A id \in DOMAIN person_buffers' : person_buffers'[id] = person_buffers[id]
             /\ \A id \in DOMAIN person_status' : person_status'[id] = person_status[id]
             /\ \A id \in PersonIds \ call'.active : GetStatusOf(person_status', id) = None
             /\ call'.active = {} => \A id \in PersonIds : GetStatusOf(person_status', id) = None
       /\ (call'.op = "update" /\ call'.person_id \notin DOMAIN person_buffers) =>
             /\ person_buffers'[call'.person_id] = <<call'.obs>>
             /\ returned'.violation_ratio[2] = 1]_vars

\* C7 witness: a cleanup that removed one known person and kept the other
C7_Witness ==
    /\ call.op = "cleanup_old_tracks"
    /\ call.known = {1, 2}
    /\ call.active = {1}
    /\ DOMAIN person_buffers = {1}
    /\ DOMAIN person_status = {1}

\* C8: every buffer has length <= buffer_size and holds the most recent
\* observations of its person in arrival order; update() on a full buffer drops
\* the oldest observation and returns a status.
C8_BufferBounded ==
    /\ \A id \in DOMAIN person_buffers :
          /\ Len(person_buffers[id]) <= buffer_size
          /\ person_buffers[id] = LastN(observed[id], buffer_size)
    /\ call.op = "update" => returned # None

\* C8 witness: a person has been fed more observations than the buffer holds
C8_Witness ==
    \E id \in DOMAIN person_buffers :
       /\ Len(observed[id]) > buffer_size
       /\ Len(person_buffers[id]) = buffer_size
       /\ call.op = "update"

----------------------------------------------------------------------------
(* Claims about PersonMatcher (checked under SpecMatcher) *)

\* C9: the matches match_persons returns are one-to-one: no camera-1 index and
\* no camera-2 index appears in two matches, so there are at most min(n1, n2).
C9_OneToOne ==
    match_done =>
       /\ \A k, l \in 1..Len(matches) :
             k # l => (matches[k][1] # matches[l][1] /\ matches[k][2] # matches[l][2])
       /\ Len(matches) <= Min(Len(persons_cam1), Len(persons_cam2))

\* C9 witness: a call that returned two matches
C9_Witness == match_done /\ Len(matches) = 2

\* the cost of the pair p of indices in the call under way
PairCost(p) == Cost(persons_cam1[p[1]], persons_cam2[p[2]], frames_given)

OneToOne(A) ==
    \A p, q \in A : p # q => (p[1] # q[1] /\ p[2] # q[2])

\* C10: match_persons returns exactly the pairs of the minimum-total-cost
\* one-to-one assignment whose cost is <= max_distance_threshold, each with
\* confidence 1 - cost >= 1 - max_distance_threshold; the other pairs of the
\* assignment are dropped and their indices appear in no match; the result is
\* empty when either list is empty.
C10_ThresholdedOptimum ==
    match_done =>
       /\ (Len(persons_cam1) = 0 \/ Len(persons_cam2) = 0) => matches = <<>>
       /\ OneToOne(assignment)
       /\ assignment \subseteq (1..Len(persons_cam1)) \X (1..Len(persons_cam2))
       /\ Cardinality(assignment) = Min(Len(persons_cam1), Len(persons_cam2))
       /\ \A B \in SUBSET ((1..Len(persons_cam1)) \X (1..Len(persons_cam2))) :
             (OneToOne(B) /\ Cardinality(B) = Cardinality(assignment)) =>
                SumOf([p \in assignment |-> PairCost(p)], assignment)
                   <= SumOf([p \in B |-> PairCost(p)], B)
       /\ {<<matches[k][1], matches[k][2]>> : k \in 1..Len(matches)}
             = {p \in assignment : PairCost(p) <= 1000 * max_distance_threshold}
       /\ \A k \in 1..Len(matches) :
             /\ matches[k][3] = 1000000 - PairCost(<<matches[k][1], matches[k][2]>>)
             /\ matches[k][3] >= 1000000 - 1000 * max_distance_threshold

\* C10 witness: a call that kept a pair whose cost equals the threshold and
\* dropped the other pair of the assignment
C10_Witness ==
    /\ match_done
    /\ Cardinality(assignment) = 2
    /\ Len(matches) = 1
    /\ matches[1][3] = 1000000 - 1000 * max_distance_threshold


----------------------------------------------------------------------------
(* Claims about FusionDetector (checked under SpecFusion) *)

\* the fused persons of the matched pairs: the first entries of fused_persons
MatchedFused == [n \in 1..Len(fusion_matches) |-> fused_persons[n]]

\* the violation decision a fused person's filtered_status carries
FusedDecision(person) ==
    Get(person.filtered_status, "is_violation",
        Get(person.filtered_status, "has_violation", FALSE))

\* C11: in two-camera fusion with strategy "or", when the camera-1 record of a
\* matched pair has filtered_status.is_violation = True and the camera-2 record
\* has is_violation = False, the fused person's filtered_status has
\* is_violation = True.
C11_OrReportsViolation ==
    (fusion_path = "two_cameras" /\ fusion_strategy = "or") =>
       \A n \in 1..Len(MatchedFused) :
          (/\ IsViolation(MatchedFused[n].person_cam1)
           /\ ~IsViolation(MatchedFused[n].person_cam2))
          => /\ "is_violation" \in DOMAIN MatchedFused[n].filtered_status
             /\ MatchedFused[n].filtered_status.is_violation

\* C12: for every matched pair, with v1 and v2 the is_violation verdicts of the
\* two cameras and c the match confidence, the fused violation decision is
\* v1 OR v2 under "or", v1 AND v2 under "and", and (v1 OR v2) AND c > 0.5 under
\* "weighted".
C12_StrategyTable ==
    fusion_path = "two_cameras" =>
       \A n \in 1..Len(MatchedFused) :
          LET v1 == IsViolation(MatchedFused[n].person_cam1)
              v2 == IsViolation(MatchedFused[n].person_cam2)
              c == MatchedFused[n].match_confidence
          IN FusedDecision(MatchedFused[n])
                <=> CASE fusion_strategy = "or" -> v1 \/ v2
                      [] fusion_strategy = "and" -> v1 /\ v2
                      [] OTHER -> (v1 \/ v2) /\ c > 500000

\* the cameras with a frame, in increasing order
ValidCameras == SortedSeq({c \in Cameras : frames[c]})

\* the person of a camera as process_frame returned it
Produced(cam, k) == produced[cam].persons[k]

\* how often the person k of camera cam occurs in the list persons, inside a
\* matched pair or as an unmatched entry tagged with its camera
Occurrences(persons, cam, k, side) ==
    Cardinality({n \in 1..Len(persons) :
        \/ /\ "person_cam1" \in DOMAIN persons[n]
           /\ side = 1
           /\ persons[n].person_cam1 = Produced(cam, k)
        \/ /\ "person_cam2" \in DOMAIN persons[n]
           /\ side = 2
           /\ persons[n].person_cam2 = Produced(cam, k)
        \/ /\ "person_id" \in DOMAIN persons[n]
           /\ persons[n].person_id = Produced(cam, k).person_id
           /\ FromCamera(persons[n], cam)
           /\ persons[n].match_confidence = 0})

\* C13: two-camera fusion returns a persons list in which every person record
\* of either camera appears exactly once, inside exactly one matched pair or as
\* one unmatched entry tagged with its camera's index and match_confidence 0;
\* total_persons = n1 + n2 - num_matches = matched_persons + cam1_only + cam2_only.
C13_EveryPersonOnce ==
    fusion_path = "two_cameras" =>
       /\ fusion_raised = "none"
       /\ \A side \in {1, 2} :
             \A k \in 1..Len(produced[ValidCameras[side]].persons) :
                Occurrences(fused_results.persons, ValidCameras[side], k, side) = 1
       /\ fused_results.statistics.total_persons
             = Len(produced[ValidCameras[1]].persons) + Len(produced[ValidCameras[2]].persons)
               - fused_results.num_matches
       /\ fused_results.statistics.total_persons
             = fused_results.statistics.matched_persons
               + fused_results.statistics.cam1_only + fused_results.statistics.cam2_only

\* the filtered violation decision of a fused person: the fused decision of a
\* matched pair, the is_violation of the status of an unmatched person
FilteredDecision(person) ==
    IF "person_cam1" \in DOMAIN person THEN FusedDecision(person)
    ELSE Get(person.filtered_status, "is_violation", FALSE)

\* C14: in two-camera fusion the violations list (whose length is
\* statistics.violations) holds exactly the fused persons whose filtered
\* violation decision is true: a matched pair counts by its fused decision, an
\* unmatched person by the is_violation of its TemporalFilter status.
C14_ViolationsCounted ==
    fusion_path = "two_cameras" =>
       fused_violations = SelectSeq(fused_persons, FilteredDecision)

Exposes(person) ==
    /\ "person_id" \in DOMAIN person
    /\ "filtered_status" \in DOMAIN person
    /\ "is_violation" \in DOMAIN person.filtered_status
    /\ "missing_ppe" \in DOMAIN person.filtered_status

\* C16: every person of the fused persons list, in every fusion mode, matched
\* pair or unmatched, exposes person_id, filtered_status.is_violation and
\* filtered_status.missing_ppe.
C16_ExposedFields ==
    /\ fused_results # None =>
          \A n \in 1..Len(fused_results.persons) : Exposes(fused_results.persons[n])
    /\ fusion_path = "two_cameras" =>
          \A n \in 1..Len(fused_persons) : Exposes(fused_persons[n])

\* C17: process_frames never mutates what the cameras' process_frame produced:
\* every result record and every person record has the same fields and values
\* after fusion as before it.
C17_NoMutation ==
    fusion_path \notin {"idle", "unused"} => camera_results = produced


----------------------------------------------------------------------------
(* Claims about two PersonTracker instances (SpecParallel, SpecTwoTrackers) *)

PtLiveIdsDistinct(t) ==
    \A i, j \in 1..Len(pt_tracks[t]) : i # j => pt_tracks[t][i].id # pt_tracks[t][j].id

\* C18: when the update() calls of two trackers run in parallel threads, the
\* read and the increment of the counter in Track.__init__ interleaved at
\* statement granularity, no tracker ever holds two live tracks with the same
\* id and no id is ever assigned twice.
C18_ParallelIdsUnique ==
    /\ \A t \in Trackers : PtLiveIdsDistinct(t)
    /\ \A t, u \in Trackers :
          \A i \in 1..Len(pt_assigned[t]), j \in 1..Len(pt_assigned[u]) :
             (t # u \/ i # j) => pt_assigned[t][i] # pt_assigned[u][j]

\* C19: with complete update() and reset() calls on two trackers A and B in any
\* order, B never holds two live tracks with the same id and never assigns an
\* id it has already assigned since its own last reset(), whatever A resets.
C19_ResetLeavesOtherTracker ==
    /\ PtLiveIdsDistinct("B")
    /\ \A i, j \in 1..Len(pt_assigned["B"]) :
          i # j => pt_assigned["B"][i] # pt_assigned["B"][j]

----------------------------------------------------------------------------
(* Claims about PersonTracker(min_hits=1) (SpecSingleDetection) *)

\* C20: with min_hits = 1 every detection passed to update() is reported in the
\* output of that call with a person_id >= 0, also when it matches no track and
\* starts a new one; the first update() of a fresh tracker with one detection
\* returns exactly one tracked person.
C20_ReportedAtOnce ==
    (frame_count > 0 /\ raised = "none") =>
       /\ \A i \in 1..Len(detections) :
             \E k \in 1..Len(tracked) : tracked[k].det = i /\ tracked[k].person_id >= 0
       /\ (frame_count = 1 /\ Len(detections) = 1) => Len(tracked) = 1

----------------------------------------------------------------------------
(* Claims about a FusionDetector and its camera pipelines (SpecPipelines) *)

\* the tracker, the temporal filter and the frame counter of every camera
PipelineState ==
    <<Track_id_counter, det_frame_count, det_tracker_frame_count, det_tracks,
      det_buffers, det_status>>

\* C21: a process_frames() call with a number of frames different from
\* num_cameras raises ValueError and changes no tracker, temporal-filter or
\* frame-counter state of any camera (so the calls that follow start from the
\* state the rejected call found).
C21_RejectsWrongCount ==
    [][(pf_calls' = pf_calls + 1 /\ Len(given_frames') # num_cameras)
          => (pf_raised' = "ValueError" /\ UNCHANGED PipelineState)]_vars

\* a call is rejected when the pipelines have tracks and buffers to lose
C21_Witness ==
    /\ pf_raised = "ValueError"
    /\ Len(given_frames) # num_cameras
    /\ \E c \in Cameras : det_frame_count[c] > 1 /\ det_tracks[c] # <<>> /\ DOMAIN det_buffers[c] # {}

----------------------------------------------------------------------------
(* Claims about set_violation_threshold (SpecThreshold) *)

\* C22: set_violation_threshold(t) with t outside [0, 1] raises ValueError and
\* leaves violation_threshold, the buffers and the statuses unchanged; with t
\* inside [0, 1], bounds included, it stores t; and the is_violation an update()
\* returns and stores compares the violation ratio of the buffer with the
\* threshold as it is at that call.
C22_ThresholdSetter ==
    [][/\ (call'.op = "set_violation_threshold" /\ call'.threshold \notin 0..10) =>
             /\ call'.raised = "ValueError"
             /\ UNCHANGED <<violation_threshold, person_buffers, person_status>>
       /\ (call'.op = "set_violation_threshold" /\ call'.threshold \in 0..10) =>
             /\ call'.raised = "none"
             /\ violation_threshold' = <<call'.threshold, 10>>
             /\ UNCHANGED <<person_buffers, person_status>>
       /\ (call'.op = "update" /\ person_buffers' # person_buffers) =>
             LET buffer == person_buffers'[call'.person_id]
             IN /\ returned'.is_violation
                      <=> (ViolationCount(buffer) * violation_threshold[2]
                              >= violation_threshold[1] * Len(buffer))
                /\ person_status'[call'.person_id] = returned'
      ]_vars

\* an update() returns a violation at a ratio of 1/2 after the threshold was set
\* to 0.5 (against the threshold of the constructor, 0.7, it would not)
C22_Witness ==
    /\ call.op = "update"
    /\ violation_threshold = <<5, 10>>
    /\ returned.violation_ratio = <<1, 2>>
    /\ returned.is_violation

----------------------------------------------------------------------------
(* Claims about the spatial cost of PersonMatcher (SpecMatcher) *)

\* twice the centre of the bbox of a person
DoubledCentre(person) ==
    <<person.bbox[1] + person.bbox[3], person.bbox[2] + person.bbox[4]>>

\* the squared distance of the doubled centres of two persons
DoubledCentresApart(person1, person2) ==
    LET c1 == DoubledCentre(person1)
        c2 == DoubledCentre(person2)
    IN (c1[1] - c2[1]) * (c1[1] - c2[1]) + (c1[2] - c2[2]) * (c1[2] - c2[2])

\* C23: for every person of camera 1 and every person of camera 2 the spatial
\* cost is the same in both directions, lies between 0 and 1, is the distance
\* of the bbox centres divided by sqrt(2) and clamped to 1 (in thousandths,
\* rounded down), and is 0 when the two centres coincide.
C23_SpatialCost ==
    \A i \in 1..Len(persons_cam1), j \in 1..Len(persons_cam2) :
       LET p1 == persons_cam1[i]
           p2 == persons_cam2[j]
           cost == SpatialDistance(p1, p2)
           d2 == DoubledCentresApart(p1, p2)
       IN /\ cost = SpatialDistance(p2, p1)
          /\ cost \in 0..1000
          /\ IF d2 >= 8 THEN cost = 1000
             ELSE cost * cost <= 125000 * d2 /\ 125000 * d2 < (cost + 1) * (cost + 1)
          /\ DoubledCentre(p1) = DoubledCentre(p2) => cost = 0

\* match_persons() has computed the cost of a pair with the same centre, of a
\* pair less than sqrt(2) apart and of a pair that is clamped
C23_Witness ==
    /\ match_done
    /\ \E i \in 1..Len(persons_cam1), j \in 1..Len(persons_cam2) :
          SpatialDistance(persons_cam1[i], persons_cam2[j]) = 0
    /\ \E i \in 1..Len(persons_cam1), j \in 1..Len(persons_cam2) :
          /\ SpatialDistance(persons_cam1[i], persons_cam2[j]) \in 1..999
          /\ persons_cam1[i].bbox # persons_cam2[j].bbox
    /\ \E i \in 1..Len(persons_cam1), j \in 1..Len(persons_cam2) :
          DoubledCentresApart(persons_cam1[i], persons_cam2[j]) > 8

----------------------------------------------------------------------------
(* Claims about the pipeline of one camera (SpecPipelines) *)

\* C24: after every process_frame tick of a camera the ids for which its
\* TemporalFilter holds a buffer, and those for which it holds a status, are
\* the ids its tracker reported in that tick, and the buffer of a reported id
\* is as long as the number of ticks in a row that reported it (at most
\* buffer_size): an id that a tick does not report starts again from an empty
\* buffer.
C24_FilterFollowsReports ==
    \A c \in Cameras :
       det_outcome[c] \in {"returned", "raised"} =>
          /\ DOMAIN det_buffers[c] = det_reported[c]
          /\ DOMAIN det_status[c] = det_reported[c]
          /\ \A id \in DOMAIN det_buffers[c] :
                /\ id \in DOMAIN det_streak[c]
                /\ Len(det_buffers[c][id]) = Min(det_streak[c][id], buffer_size)

----------------------------------------------------------------------------
(* Claims about the PersonTracker of a camera pipeline (SpecRematch) *)

\* the ids of the tracks the association step of the last update() matched
MatchedIds == {matched[k][2] : k \in 1..Len(matched)}

\* the ids the last update() reported
ReportedIds == {tracked[k].person_id : k \in 1..Len(tracked)}

\* C25: in every update() call that returns, a track that was unmatched in the
\* call before and is matched in this one has hits = 1 afterwards, every
\* reported id is that of a track with hits >= min_hits, and a track that this
\* call leaves unmatched is absent from its output; so a confirmed track that
\* missed a tick is reported again only when it has been matched in min_hits
\* ticks in a row.
C25_RematchStartsOver ==
    [][(frame_count' = frame_count + 1 /\ raised' = "none") =>
          /\ \A i \in 1..Len(tracks) :
                /\ (tracks[i].time_since_update > 0 /\ tracks[i].id \in MatchedIds') =>
                      \A k \in 1..Len(tracks') :
                         tracks'[k].id = tracks[i].id => tracks'[k].hits = 1
                /\ tracks[i].id \notin MatchedIds' => tracks[i].id \notin ReportedIds'
          /\ \A id \in ReportedIds' :
                \E k \in 1..Len(tracks') :
                   tracks'[k].id = id /\ tracks'[k].hits >= tracker_min_hits
      ]_vars

----------------------------------------------------------------------------
(* Claims about the fused status of a matched pair (SpecMerge) *)

\* filtered_status["missing_ppe"] of a pipeline person, as a set
MissingOf(person) == Range(person.filtered_status.missing_ppe)

C28_ViolationNamesItem ==
    fusion_path = "two_cameras" =>
       \A n \in 1..Len(MatchedFused) :
          LET fused == MatchedFused[n]
          IN (/\ IsViolation(fused.person_cam1) => MissingOf(fused.person_cam1) # {}
              /\ IsViolation(fused.person_cam2) => MissingOf(fused.person_cam2) # {}
              /\ FusedDecision(fused))
             => fused.filtered_status.missing_ppe # <<>>

----------------------------------------------------------------------------
(* Claims about the cameras of one process_frames() call (SpecPipelines) *)

\* the tracker, the temporal filter and the frame counter of camera c
CameraState(c) ==
    <<det_frame_count[c], det_tracker_frame_count[c], det_tracks[c],
      det_buffers[c], det_status[c]>>

\* In a process_frames() call with the right number of frames, a camera given a
\* null frame keeps its tracker, temporal filter and frame counter as they were.
C29_NullFrameUntouched ==
    [][(pf_calls' = pf_calls + 1 /\ Len(given_frames') = num_cameras)
          => \A c \in Cameras :
                ~given_frames'[c + 1] => UNCHANGED CameraState(c)]_vars

\* C29: in a process_frames() call with the right number of frames, a camera
\* given a null frame keeps its tracker, temporal filter and frame counter as
\* they were, and every camera given a frame advances its pipeline by exactly
\* one tick (one more frame counted by the detector and by its tracker), with
\* two cameras given a frame and with all three.
C29_OneTickPerFrame ==
    [][(pf_calls' = pf_calls + 1 /\ Len(given_frames') = num_cameras)
          => \A c \in Cameras :
                IF given_frames'[c + 1]
                THEN /\ det_frame_count'[c] = det_frame_count[c] + 1
                     /\ det_tracker_frame_count'[c] = det_tracker_frame_count[c] + 1
                ELSE UNCHANGED CameraState(c)]_vars

----------------------------------------------------------------------------
(* Claims about the association step of update() (SpecOverlap) *)

\* the detections of the last update() the association step left unmatched
UnmatchedDetections == (1..Len(detections)) \ {matched[k][1] : k \in 1..Len(matched)}

\* C27: after the association step of an update(), no detection left unmatched
\* (which becomes a new track) overlaps a track left unmatched in that tick by
\* iou_threshold or more.
C27_NoOverlapLeftUnmatched ==
    [][(frame_count' = frame_count + 1 /\ raised' # "ValueError")
          => \A d \in UnmatchedDetections' :
                \A k \in 1..Len(tracks) :
                   tracks[k].id \notin MatchedIds'
                      => ~IouAtLeastThreshold(detections'[d], tracks[k].bbox)]_vars

----------------------------------------------------------------------------
(* Claims about the dictionaries of a TemporalFilter (SpecQueries) *)

\* the calls that only read the filter
ReadOnlyQueries == {"get_status", "get_person_history", "get_statistics"}

\* C30: with buffer_size >= 1, after any sequence of update, remove_person,
\* cleanup_old_tracks, reset, get_status, get_person_history and get_statistics
\* calls, the ids with a stored status are the ids with a buffer and every
\* buffer is non-empty; and a read-only query changes neither dictionary, for a
\* known id and for an unknown one.
C30_StatusAndBuffersAgree ==
    /\ [](buffer_size >= 1 =>
            /\ DOMAIN person_status = DOMAIN person_buffers
            /\ \A id \in DOMAIN person_buffers : Len(person_buffers[id]) >= 1)
    /\ [][call'.op \in ReadOnlyQueries => UNCHANGED <<person_buffers, person_status>>]_vars

\* get_person_history has been asked for an id the filter does not know while
\* it knows another one
C30_Witness ==
    /\ call.op = "get_person_history"
    /\ call.person_id \notin DOMAIN person_buffers
    /\ DOMAIN person_buffers # {}
    /\ returned = [history |-> <<>>]

====
